---- MODULE Spec2Model ----
(***************************************************************************)
(* Verification model of rust-market-ledger: the five consensus engines    *)
(* (PBFT, Gossip, Eventual, Quorum-less, Flexible Paxos) behind the        *)
(* ConsensusAlgorithm trait, the strategy adapter and the block store.     *)
(* One run of the program uses one engine (main.rs,                        *)
(* get_consensus_selection), so every specification below starts by fixing *)
(* the component and only that component's operations are enabled.         *)
(***************************************************************************)
EXTENDS Integers, Sequences, FiniteSets, TLC

VARIABLES
    engine,            \* ConsensusType selected for this run
    \* ---- PBFT: NodeState of every modelled replica (pbft_impl.rs) ----
    peers,             \* who is on the other end of the transport (see FromPeers)
    pre_prepares,      \* [replica -> [(view,sequence) -> Vec<usize>]]
    prepares,          \* [replica -> [(view,sequence) -> Vec<usize>]]
    commits,           \* [replica -> [(view,sequence) -> Vec<usize>]]
    committed_blocks,  \* [replica -> Vec<u64>]
    pc,                \* [replica -> position inside PBFTConsensus::propose]
    blk,               \* [replica -> block handed to the running propose]
    result,            \* [replica -> value returned by the last propose]
    attempts,          \* [replica -> number of propose calls made]
    nvotes,            \* [replica -> votes recorded from the unmodelled peers]
    ret,               \* value returned by the last PBFTManager handler call
    \* ---- the engines behind ConsensusAlgorithm alone ----
    committed,         \* HashSet<u64> `committed` of the engine
    out,               \* value returned by the last call that returned
    \* ---- Gossip (gossip.rs) ----
    state,             \* HashMap<u64, GossipState>: block index -> received_from
    proposing,         \* blocks whose propose call is in its sleep
    \* ---- Quorum-less (quorumless.rs) ----
    node_weights,      \* HashMap<usize, f64>
    votes,             \* HashMap<u64, HashMap<usize, bool>>: index -> voters
    votes_lock,        \* holder of the RwLock around `votes`
    \* ---- Flexible Paxos (flexible_paxos.rs) ----
    quorums,           \* q1_size and q2_size of the instance
    acceptors,         \* HashMap<NodeId, AcceptorState>
    current_proposal,  \* ProposalId handed out last
    call,              \* [call -> locals of one running propose]
    \* ---- the store (etl/load.rs) ----
    blockchain,        \* rows of the SQLite table `blockchain`
    \* ---- the benchmark harness (comparison.rs) and the driver (main.rs) ----
    bench,             \* locals of benchmark_consensus_strategy and the strategy instance
    driver,            \* locals of main's round loop
    \* ---- the engines' locks and the calls running on them (parking_lot RwLock) ----
    tasks,             \* [task -> position, arguments and guards held by the call]
    \* ---- functions checked on their own ----
    input,             \* arguments of the call
    output             \* what the call produced

voteVars == <<pre_prepares, prepares, commits, committed_blocks, ret>>

pbftVars == <<peers, voteVars, pc, blk, result, attempts, nvotes>>

gossipVars == <<state, proposing>>

quorumlessVars == <<node_weights, votes, votes_lock>>

paxosVars == <<quorums, acceptors, current_proposal, call>>

fnVars == <<input, output>>

\* Everything PBFT leaves alone.
nonPBFTButTasks == <<committed, out, gossipVars, quorumlessVars, paxosVars, blockchain, bench, driver, fnVars>>

nonPBFT == <<nonPBFTButTasks, tasks>>

vars == <<engine, pbftVars, nonPBFT>>

Range(s) == {s[i] : i \in DOMAIN s}

NoResult == [kind |-> "None"]
Pending == [kind |-> "Pending"]
Committed(block) == [kind |-> "Committed", block |-> block]

(***************************************************************************)
(* PBFT                                                                    *)
(***************************************************************************)
\* main.rs builds the cluster from four node addresses.
TotalNodes == 4
Nodes == 0 .. (TotalNodes - 1)
\* Replicas whose PBFTManager is modelled in full.
Replicas == {0, 1}
Views == {0, 1}
Sequences == {1}
Hashes == {"h1", "h2"}
\* Cap on the votes a replica records from unmodelled peers.
MaxVotes == 3
\* Cap on the propose calls of one replica.
MaxAttempts == 1

Keys == Views \X Sequences
MsgTypes == {"PrePrepare", "Prepare", "Commit"}
\* The fields of Block the engines read: index and hash.
Blocks == [index : Sequences, hash : Hashes]
NoBlock == [index |-> 0, hash |-> ""]

\* NodeState.view is set to 0 by NodeState::new and never written again.
NodeView == 0

PBFTMessage(t, v, s, h, n) ==
    [msg_type |-> t, view |-> v, sequence |-> s, block_hash |-> h, node_id |-> n]

AllMessages ==
    {PBFTMessage(t, v, s, h, n) :
        t \in MsgTypes, v \in Views, s \in Sequences, h \in Hashes, n \in Nodes}

\* Variant: two thirds of the cluster plus one.
two_thirds(total_nodes) == ((2 * total_nodes) \div 3) + 1

quorum_size(total_nodes) ==
    LET f == (total_nodes - 1) \div 3 IN (2 * f) + 1

\* Variant: one vote short of the quorum is enough.
weak_quorum(senders, total_nodes) == Len(senders) >= quorum_size(total_nodes) - 1

has_quorum(senders, total_nodes) == Len(senders) >= quorum_size(total_nodes)

is_primary(node, sequence) == (sequence % TotalNodes) = node

\* Variant: push without the contains check.
AppendVote(senders, node_id) == Append(senders, node_id)

\* Variant: the Vec is replaced by the newest sender.
ReplaceVote(senders, node_id) == <<node_id>>

\* `if !votes.contains(&msg.node_id) { votes.push(msg.node_id) }`
RecordVote(senders, node_id) ==
    IF node_id \in Range(senders) THEN senders ELSE Append(senders, node_id)

\* Variant: push without the quorum check.
RecordUnchecked(done, sequence, quorum) ==
    IF sequence \notin Range(done) THEN Append(done, sequence) ELSE done

\* Variant: a quorate Commit for a committed sequence clears the Vec.
RecordToggle(done, sequence, quorum) ==
    IF ~quorum THEN done
    ELSE IF sequence \in Range(done) THEN <<>>
    ELSE Append(done, sequence)

\* Variant: every quorate Commit pushes the sequence.
RecordRepeated(done, sequence, quorum) ==
    IF quorum THEN Append(done, sequence) ELSE done

\* `if has_quorum && !committed_blocks.contains(&sequence) { push(sequence) }`
RecordCommitted(done, sequence, quorum) ==
    IF quorum /\ sequence \notin Range(done) THEN Append(done, sequence) ELSE done

handle_pre_prepare(r, msg) ==
    LET key == <<msg.view, msg.sequence>>
        senders == RecordVote(pre_prepares[r][key], msg.node_id)
    IN  /\ pre_prepares' = [pre_prepares EXCEPT ![r][key] = senders]
        /\ ret' = has_quorum(senders, TotalNodes)
        /\ UNCHANGED <<prepares, commits, committed_blocks>>

handle_prepare(r, msg) ==
    LET key == <<msg.view, msg.sequence>>
        senders == RecordVote(prepares[r][key], msg.node_id)
    IN  /\ prepares' = [prepares EXCEPT ![r][key] = senders]
        /\ ret' = has_quorum(senders, TotalNodes)
        /\ UNCHANGED <<pre_prepares, commits, committed_blocks>>

handle_commit(r, msg) ==
    LET key == <<msg.view, msg.sequence>>
        senders == RecordVote(commits[r][key], msg.node_id)
        quorum == has_quorum(senders, TotalNodes)
    IN  /\ commits' = [commits EXCEPT ![r][key] = senders]
        /\ committed_blocks' = [committed_blocks EXCEPT
                                  ![r] = RecordCommitted(@, msg.sequence, quorum)]
        /\ ret' = quorum
        /\ UNCHANGED <<pre_prepares, prepares>>

is_committed(r, sequence) == sequence \in Range(committed_blocks[r])

\* The closure main.rs hands to NetworkHandler: dispatch on msg_type.
on_message(r, msg) ==
    CASE msg.msg_type = "PrePrepare" -> handle_pre_prepare(r, msg)
      [] msg.msg_type = "Prepare" -> handle_prepare(r, msg)
      [] msg.msg_type = "Commit" -> handle_commit(r, msg)

\* The replicas that run in this deployment.
\*   peers = "any": one PBFTManager, exercised through its handlers alone the
\*     way the unit tests of pbft_impl.rs do; /message accepts every
\*     well-formed message, whoever posts it.
\*   peers = "correct": the deployment of main.rs on fresh stores, every
\*     replica correct, node 3 slow; replicas 0 and 1 modelled in full, node 2
\*     seen through its messages.
\*   peers = "all": the four replicas of main.rs on fresh stores, every one
\*     correct and running, no POST lost.
Active == IF peers = "any" THEN {1} ELSE IF peers = "all" THEN Nodes ELSE Replicas
Proposers == IF peers = "any" THEN {} ELSE IF peers = "all" THEN Nodes ELSE Replicas

VotesOf(r, msg) ==
    LET key == <<msg.view, msg.sequence>> IN
    CASE msg.msg_type = "PrePrepare" -> pre_prepares[r][key]
      [] msg.msg_type = "Prepare" -> prepares[r][key]
      [] msg.msg_type = "Commit" -> commits[r][key]

\* The block the driver of node n hands to propose: main.rs hashes the node's
\* own sample and its own clock reading.  Node 0 builds another block than
\* nodes 1 and 2.
BuiltBlocks(n) == {b \in Blocks : b.hash = (IF n = 0 THEN "h1" ELSE "h2")}

\* What the unmodelled side of the transport can POST to replica r.  With
\* correct peers node 2 broadcasts a Prepare for whatever block it built, a
\* PrePrepare only where it is primary, and a Commit only once it can hold Q
\* Prepares: its own and those of both modelled replicas, which record their
\* own Prepare right after broadcasting it.
FromPeers(r, msg) ==
    IF peers = "any"
    THEN nvotes[r] < MaxVotes \/ msg.node_id \in Range(VotesOf(r, msg))
    ELSE /\ msg.node_id = 2
         /\ msg.view = NodeView
         /\ \E b \in BuiltBlocks(2) : msg.sequence = b.index /\ msg.block_hash = b.hash
         /\ msg.msg_type = "PrePrepare" => is_primary(msg.node_id, msg.sequence)
         /\ msg.msg_type = "Commit" =>
              \A q \in Replicas : q \in Range(prepares[q][<<msg.view, msg.sequence>>])

\* POST /message -> receive_message -> on_message
Deliver(r, msg) ==
    /\ engine = "PBFT"
    /\ r \in Active
    /\ FromPeers(r, msg)
    /\ on_message(r, msg)
    /\ nvotes' = [nvotes EXCEPT ![r] =
                    IF msg.node_id \in Range(VotesOf(r, msg)) THEN @ ELSE @ + 1]
    /\ UNCHANGED <<nonPBFT, engine, peers, pc, blk, result, attempts>>

\* The vote maps after every replica of `to` has run its handler on a message
\* of sender node_id for `key`.
RecordAt(map, to, key, node_id) ==
    [q \in DOMAIN map |->
        IF q \in to THEN [map[q] EXCEPT ![key] = RecordVote(@, node_id)] ELSE map[q]]

\* broadcast_message with every POST answered: each other replica runs
\* on_message, in the order of node_addresses.
broadcast_to_all(r, msg) ==
    LET to == Active \ {r}
        key == <<msg.view, msg.sequence>>
        last == CHOOSE q \in to : \A o \in to : o <= q
    IN  CASE msg.msg_type = "PrePrepare" ->
               /\ pre_prepares' = RecordAt(pre_prepares, to, key, msg.node_id)
               /\ ret' = has_quorum(pre_prepares'[last][key], TotalNodes)
               /\ UNCHANGED <<prepares, commits, committed_blocks>>
          [] msg.msg_type = "Prepare" ->
               /\ prepares' = RecordAt(prepares, to, key, msg.node_id)
               /\ ret' = has_quorum(prepares'[last][key], TotalNodes)
               /\ UNCHANGED <<pre_prepares, commits, committed_blocks>>
          [] msg.msg_type = "Commit" ->
               /\ commits' = RecordAt(commits, to, key, msg.node_id)
               /\ committed_blocks' =
                     [q \in DOMAIN committed_blocks |->
                        IF q \in to
                          THEN RecordCommitted(committed_blocks[q], msg.sequence,
                                               has_quorum(commits'[q][key], TotalNodes))
                          ELSE committed_blocks[q]]
               /\ ret' = has_quorum(commits'[last][key], TotalNodes)
               /\ UNCHANGED <<pre_prepares, prepares>>

\* broadcast_message: one POST to every other node, each awaited; the receiver
\* runs on_message before it answers, a failed send is skipped.  With
\* unmodelled peers at most one other modelled replica is among the receivers.
broadcast_message(r, msg) ==
    IF peers = "all"
      THEN broadcast_to_all(r, msg)
      ELSE \/ UNCHANGED voteVars
           \/ \E q \in Active \ {r} : on_message(q, msg)

\* POST /message with a PrePrepare, the message kept in `input`, the list of the
\* PrePrepares the replica was sent so far.
ReceivePrePrepare(r, msg) ==
    /\ engine = "PBFT"
    /\ r \in Active
    /\ msg.msg_type = "PrePrepare"
    /\ Len(input) < MaxVotes
    /\ handle_pre_prepare(r, msg)
    /\ input' = Append(input, msg)
    /\ UNCHANGED <<engine, peers, pc, blk, result, attempts, nvotes, committed, out,
                   gossipVars, quorumlessVars, paxosVars, blockchain, bench, driver, tasks,
                   output>>

\* The block handed to propose on replica r.  In the four-replica run every
\* replica proposes the same block.
Proposed(r) == IF peers = "all" THEN BuiltBlocks(0) ELSE BuiltBlocks(r)

\* PBFTConsensus::propose is entered; the primary broadcasts its PrePrepare.
ProposeStart(r, block) ==
    /\ engine = "PBFT"
    /\ r \in Proposers
    /\ pc[r] = "idle"
    /\ attempts[r] < MaxAttempts
    /\ block \in Proposed(r)
    /\ attempts' = [attempts EXCEPT ![r] = @ + 1]
    /\ blk' = [blk EXCEPT ![r] = block]
    /\ result' = [result EXCEPT ![r] = NoResult]
    /\ IF is_primary(r, block.index)
         THEN /\ broadcast_message(r, PBFTMessage("PrePrepare", NodeView, block.index,
                                                  block.hash, r))
              /\ pc' = [pc EXCEPT ![r] = "pre_prepare"]
         ELSE /\ UNCHANGED voteVars
              /\ pc' = [pc EXCEPT ![r] = "sleep"]
    /\ UNCHANGED <<nonPBFT, engine, peers, nvotes>>

\* ... and records it, then sleeps 500 ms.
ProposePrePrepare(r) ==
    /\ engine = "PBFT"
    /\ pc[r] = "pre_prepare"
    /\ handle_pre_prepare(r, PBFTMessage("PrePrepare", NodeView, blk[r].index,
                                         blk[r].hash, r))
    /\ pc' = [pc EXCEPT ![r] = "sleep"]
    /\ UNCHANGED <<nonPBFT, engine, peers, blk, result, attempts, nvotes>>

\* Prepare phase: broadcast ...
ProposeBroadcastPrepare(r) ==
    /\ engine = "PBFT"
    /\ pc[r] = "sleep"
    /\ broadcast_message(r, PBFTMessage("Prepare", NodeView, blk[r].index, blk[r].hash, r))
    /\ pc' = [pc EXCEPT ![r] = "prepare"]
    /\ UNCHANGED <<nonPBFT, engine, peers, blk, result, attempts, nvotes>>

\* ... record the own Prepare, return Pending without a quorum.
ProposePrepare(r) ==
    /\ engine = "PBFT"
    /\ pc[r] = "prepare"
    /\ handle_prepare(r, PBFTMessage("Prepare", NodeView, blk[r].index, blk[r].hash, r))
    /\ IF ret'
         THEN /\ pc' = [pc EXCEPT ![r] = "broadcast_commit"]
              /\ UNCHANGED <<blk, result>>
         ELSE /\ pc' = [pc EXCEPT ![r] = "idle"]
              /\ result' = [result EXCEPT ![r] = Pending]
              /\ blk' = [blk EXCEPT ![r] = NoBlock]
    /\ UNCHANGED <<nonPBFT, engine, peers, attempts, nvotes>>

\* run_pbft_consensus of main.rs, which shares every other step with propose:
\* the own Prepare is recorded; without a quorum the function sleeps two
\* seconds and goes on to the Commit phase.
RunPbftPrepare(r) ==
    /\ engine = "PBFT"
    /\ driver.pc = "run_pbft_consensus"
    /\ pc[r] = "prepare"
    /\ handle_prepare(r, PBFTMessage("Prepare", NodeView, blk[r].index, blk[r].hash, r))
    /\ pc' = [pc EXCEPT ![r] = "broadcast_commit"]
    /\ UNCHANGED <<nonPBFT, engine, peers, blk, result, attempts, nvotes>>

\* Commit phase: broadcast ...
ProposeBroadcastCommit(r) ==
    /\ engine = "PBFT"
    /\ pc[r] = "broadcast_commit"
    /\ broadcast_message(r, PBFTMessage("Commit", NodeView, blk[r].index, blk[r].hash, r))
    /\ pc' = [pc EXCEPT ![r] = "commit"]
    /\ UNCHANGED <<nonPBFT, engine, peers, blk, result, attempts, nvotes>>

\* ... record the own Commit and return.
ProposeCommit(r) ==
    /\ engine = "PBFT"
    /\ pc[r] = "commit"
    /\ handle_commit(r, PBFTMessage("Commit", NodeView, blk[r].index, blk[r].hash, r))
    /\ pc' = [pc EXCEPT ![r] = "idle"]
    /\ result' = [result EXCEPT ![r] = IF ret' THEN Committed(blk[r]) ELSE Pending]
    /\ blk' = [blk EXCEPT ![r] = NoBlock]
    /\ UNCHANGED <<nonPBFT, engine, peers, attempts, nvotes>>


\* PBFTConsensus::handle_message: returns Pending, writes nothing.
PBFTHandleMessage(r) ==
    /\ engine = "PBFT"
    /\ r \in Proposers
    /\ UNCHANGED vars

(***************************************************************************)
(* The engines behind the ConsensusAlgorithm trait                         *)
(***************************************************************************)
Indexes == {1, 2}
\* The blocks handed to propose: index and hash are the fields read.
TraitBlocks == [index : Indexes, hash : Hashes]
\* ConsensusMessage: block_index and node_id are the fields read.
ConsensusMessage(i, h, n) == [block_index |-> i, block_hash |-> h, node_id |-> n]
TraitMessages == {ConsensusMessage(i, h, n) : i \in Indexes, h \in Hashes, n \in Nodes}

EmptyMap == [k \in {} |-> {}]

\* HashMap::insert / entry().or_insert on a map held as a function.
MapInsert(map, key, value) ==
    [k \in (DOMAIN map) \cup {key} |-> IF k = key THEN value ELSE map[k]]

MapOrInsert(map, key, value) ==
    IF key \in DOMAIN map THEN map ELSE MapInsert(map, key, value)

\* is_committed of Gossip, Eventual, Quorum-less and Flexible Paxos.
engine_is_committed(block_index) == block_index \in committed

(***************************************************************************)
(* Gossip                                                                  *)
(***************************************************************************)
\* GossipConsensus::new(node_id, 3, 2) in main.rs: fanout.
Fanout == 2
\* GossipConsensus::new(node_id, 3, 2) in main.rs: gossip_rounds.
GossipRounds == 3

\* propose, up to the sleep: the entry of the index is replaced by a fresh one.
GossipProposeStart(block) ==
    /\ engine = "Gossip"
    /\ block \notin proposing
    /\ state' = MapInsert(state, block.index, {})
    /\ proposing' = proposing \cup {block}
    /\ UNCHANGED <<engine, blockchain, bench, driver, tasks, pbftVars, out, committed, quorumlessVars, paxosVars, fnVars>>

\* Variant: propose commits only an index seen by `fanout` senders.
GossipCommitAtFanout(block) ==
    LET seen == block.index \in DOMAIN state /\ Cardinality(state[block.index]) >= Fanout
    IN  /\ engine = "Gossip"
        /\ block \in proposing
        /\ committed' = IF seen THEN committed \cup {block.index} ELSE committed
        /\ proposing' = proposing \ {block}
        /\ out' = IF seen THEN Committed(block) ELSE Pending
        /\ UNCHANGED <<engine, blockchain, bench, driver, tasks, pbftVars, state, quorumlessVars, paxosVars, fnVars>>

\* propose, after the sleep: commit and return Committed(block).
GossipProposeCommit(block) ==
    /\ engine = "Gossip"
    /\ block \in proposing
    /\ committed' = committed \cup {block.index}
    /\ proposing' = proposing \ {block}
    /\ out' = Committed(block)
    /\ UNCHANGED <<engine, blockchain, bench, driver, tasks, pbftVars, state, quorumlessVars, paxosVars, fnVars>>

\* handle_message: record the sender, commit at `fanout` senders.
GossipHandleMessage(message) ==
    LET entries == MapOrInsert(state, message.block_index, {})
        received_from == entries[message.block_index] \cup {message.node_id}
    IN  /\ engine = "Gossip"
        /\ state' = [entries EXCEPT ![message.block_index] = received_from]
        /\ committed' = IF Cardinality(received_from) >= Fanout
                          THEN committed \cup {message.block_index}
                          ELSE committed
        /\ out' = Pending
        /\ UNCHANGED <<engine, blockchain, bench, driver, tasks, pbftVars, proposing, quorumlessVars, paxosVars, fnVars>>

(***************************************************************************)
(* Eventual                                                                *)
(***************************************************************************)
\* Variant: propose returns Pending and commits nothing.
EventualWait(block) ==
    /\ engine = "Eventual"
    /\ out' = Pending
    /\ UNCHANGED <<engine, blockchain, bench, driver, tasks, pbftVars, committed, gossipVars, quorumlessVars,
                   paxosVars, fnVars>>

\* propose: sleep, then commit and return Committed(block).
EventualPropose(block) ==
    /\ engine = "Eventual"
    /\ committed' = committed \cup {block.index}
    /\ out' = Committed(block)
    /\ UNCHANGED <<engine, blockchain, bench, driver, tasks, pbftVars, gossipVars, quorumlessVars, paxosVars, fnVars>>

\* handle_message: returns Pending, writes nothing.
EventualHandleMessage(message) ==
    /\ engine = "Eventual"
    /\ out' = Pending
    /\ UNCHANGED <<engine, blockchain, bench, driver, tasks, pbftVars, committed, gossipVars, quorumlessVars,
                   paxosVars, fnVars>>

(***************************************************************************)
(* Quorum-less                                                             *)
(***************************************************************************)
\* QuorumlessConsensus::new gives weight 1.0 to nodes 0..10.
WeightedNodes == 0 .. 9
Weights == {0, 1, 2}

\* threshold_weight, as main.rs builds the engine (weights are whole numbers
\* here, f64 in the source).
ThresholdWeight == 5

RECURSIVE SumWeights(_, _)
SumWeights(weights, voters) ==
    IF voters = {} THEN 0
    ELSE LET node_id == CHOOSE n \in voters : TRUE
         IN  (IF node_id \in DOMAIN weights THEN weights[node_id] ELSE 0)
             + SumWeights(weights, voters \ {node_id})

\* The weight calculate_total_weight would return if its `votes.read()` were
\* granted: the summed weight of the nodes whose vote for the block is true
\* (a node without a weight counts 0, a block without votes 0).
calculate_total_weight(block_index) ==
    IF block_index \in DOMAIN votes
    THEN SumWeights(node_weights, votes[block_index])
    ELSE 0

set_node_weight(node_id, weight) ==
    /\ engine = "Quorumless"
    /\ node_weights' = MapInsert(node_weights, node_id, weight)
    /\ UNCHANGED <<engine, blockchain, bench, driver, tasks, pbftVars, out, committed, gossipVars, votes, votes_lock,
                   paxosVars, fnVars>>

\* propose and handle_message take `self.votes.write()`, record the vote and,
\* with the guard still alive, call calculate_total_weight, which asks the same
\* parking_lot lock for `read()`: the lock is not reentrant, the call never
\* returns and the write guard is never dropped.  Every later call waits at
\* `self.votes.write()`.
QuorumlessRecordVote(caller, block_index, node_id) ==
    /\ engine = "Quorumless"
    /\ votes_lock = "free"
    /\ votes' = [MapOrInsert(votes, block_index, {}) EXCEPT
                    ![block_index] = @ \cup {node_id}]
    /\ votes_lock' = caller
    /\ UNCHANGED <<engine, blockchain, bench, driver, tasks, pbftVars, out, committed, gossipVars, node_weights,
                   paxosVars, fnVars>>

\* propose votes for the engine's own node, node 0 as in the tests.
QuorumlessPropose(block) == QuorumlessRecordVote("propose", block.index, 0)

QuorumlessHandleMessage(message) ==
    QuorumlessRecordVote("handle_message", message.block_index, message.node_id)

(***************************************************************************)
(* Flexible Paxos                                                          *)
(***************************************************************************)
\* Option<T>
None == [some |-> FALSE]
Some(x) == [some |-> TRUE, value |-> x]

\* Cap on the propose calls made on one instance.
MaxCalls == 2
Calls == 1 .. MaxCalls

\* Variant: the majority bound rounded up, Q1 >= ceil((N + 1) / 2).
new_ceiling(total_nodes, q1_size, q2_size) ==
    IF ~(q1_size + q2_size > total_nodes)
      THEN [panic |-> "Q1 + Q2 must be > total_nodes to ensure quorum intersection"]
    ELSE IF ~(q1_size >= (total_nodes + 2) \div 2)
      THEN [panic |-> "Q1 should be at least majority for safety"]
    ELSE [panic |-> "",
          total_nodes |-> total_nodes, q1_size |-> q1_size, q2_size |-> q2_size,
          acceptors |-> [i \in 0 .. (total_nodes - 1) |->
                            [promised |-> [some |-> FALSE],
                             accepted |-> [some |-> FALSE]]]]

\* FlexiblePaxos::new: the two assertions, in order; the acceptors start with
\* nothing promised and nothing accepted.
new(total_nodes, q1_size, q2_size) ==
    IF ~(q1_size + q2_size > total_nodes)
      THEN [panic |-> "Q1 + Q2 must be > total_nodes to ensure quorum intersection"]
    ELSE IF ~(q1_size >= (total_nodes + 1) \div 2)
      THEN [panic |-> "Q1 should be at least majority for safety"]
    ELSE [panic |-> "",
          total_nodes |-> total_nodes, q1_size |-> q1_size, q2_size |-> q2_size,
          acceptors |-> [i \in 0 .. (total_nodes - 1) |->
                            [promised |-> None, accepted |-> None]]]

Built(instance) == instance.panic = ""

\* The quorum pairs the repository constructs for four nodes:
\* main.rs ((N + 1) / 2 + 1, N / 2) and examples/trilemma_comparison.rs (2, 3).
QuorumPairs == {<<((TotalNodes + 1) \div 2) + 1, TotalNodes \div 2>>, <<2, 3>>}

is_quorum(nodes, size) == Cardinality(nodes) >= size

\* Variant: the Promise does not carry the accepted value.
forgetful_prepare(acceptor, proposal) ==
    IF acceptor.promised = None \/ proposal > acceptor.promised.value
      THEN [acceptor |-> [acceptor EXCEPT !.promised = Some(proposal)],
            promise |-> TRUE, accepted |-> None]
      ELSE [acceptor |-> acceptor, promise |-> FALSE, accepted |-> None]

\* handle_prepare on one acceptor: the new acceptor state and the response.
paxos_handle_prepare(acceptor, proposal) ==
    LET should_accept == IF acceptor.promised = None
                           THEN TRUE
                           ELSE proposal > acceptor.promised.value
    IN  IF should_accept
          THEN [acceptor |-> [acceptor EXCEPT !.promised = Some(proposal)],
                promise |-> TRUE, accepted |-> acceptor.accepted]
          ELSE [acceptor |-> acceptor, promise |-> FALSE, accepted |-> None]

\* Variant: the acceptor accepts whatever it is sent.
accept_any(acceptor, proposal, value) ==
    [acceptor |-> [promised |-> Some(proposal),
                   accepted |-> Some([proposal |-> proposal, value |-> value])],
     accepted |-> TRUE]

\* handle_accept on one acceptor: the new acceptor state and the response.
paxos_handle_accept(acceptor, proposal, value) ==
    LET should_accept == IF acceptor.promised = None
                           THEN TRUE
                           ELSE proposal >= acceptor.promised.value
    IN  IF should_accept
          THEN [acceptor |-> [promised |-> Some(proposal),
                              accepted |-> Some([proposal |-> proposal, value |-> value])],
                accepted |-> TRUE]
          ELSE [acceptor |-> acceptor, accepted |-> FALSE]

\* The blocks handed to propose: a retry for the same index carries a new block
\* (new timestamp, new hash), after which the driver moves to the next index.
PaxosBlocks == {b \in TraitBlocks : b.index = 1 \/ b.hash = "h2"}

\* The first block proposed on an instance.  The engine reads nothing of a block
\* but the index it inserts on commit, so the first proposal is fixed to one
\* block and the later ones range over PaxosBlocks.
FirstBlock == [index |-> 1, hash |-> "h1"]

\* The locals of a propose call; a call that returned keeps only its result.
IdleCall ==
    [pc |-> "idle", proposal |-> 0, block |-> NoBlock, node_id |-> 0,
     promises |-> {}, highest_accepted |-> None, value |-> NoBlock,
     accepted |-> {}, result |-> NoResult]

Returned(res) == [IdleCall EXCEPT !.pc = "returned", !.result = res]

\* FlexiblePaxos::new: current_proposal starts at node_id * 1000.
first_proposal(node_id) == node_id * 1000

\* Variant: the stride does not depend on the cluster size.
next_proposal_fixed_stride(current, total_nodes) == current + 1000

\* next_proposal, under the write guard of current_proposal:
\* `*proposal += self.total_nodes as ProposalId * 1000; *proposal`
next_proposal(current, total_nodes) == current + (total_nodes * 1000)

\* propose: next_proposal.  Calls take their proposal numbers in call order.
PaxosPropose(c, block) ==
    /\ engine = "FlexiblePaxos"
    /\ call[c].pc = "idle"
    /\ \A d \in Calls : d < c => call[d].pc # "idle"
    /\ c = 1 => block = FirstBlock
    /\ current_proposal' = next_proposal(current_proposal, TotalNodes)
    /\ call' = [call EXCEPT ![c] = [IdleCall EXCEPT !.pc = "phase1",
                                                     !.proposal = current_proposal',
                                                     !.block = block]]
    /\ UNCHANGED <<engine, blockchain, bench, driver, tasks, pbftVars, out, committed, gossipVars, quorumlessVars,
                   quorums, acceptors, fnVars>>

\* propose, phase 1: Prepare to the next acceptor; after the last one the Q1
\* check and the choice of value_to_accept.
PaxosPrepare(c) ==
    LET me == call[c]
        r == paxos_handle_prepare(acceptors[me.node_id], me.proposal)
        promises == IF r.promise THEN me.promises \cup {me.node_id} ELSE me.promises
        highest_accepted ==
            IF /\ r.promise
               /\ r.accepted # None
               /\ \/ me.highest_accepted = None
                  \/ r.accepted.value.proposal > me.highest_accepted.value.proposal
              THEN r.accepted
              ELSE me.highest_accepted
        value_to_accept == IF highest_accepted # None
                             THEN highest_accepted.value.value
                             ELSE me.block
    IN  /\ engine = "FlexiblePaxos"
        /\ me.pc = "phase1"
        /\ acceptors' = [acceptors EXCEPT ![me.node_id] = r.acceptor]
        /\ call' = [call EXCEPT ![c] =
                      IF me.node_id + 1 < TotalNodes
                        THEN [me EXCEPT !.node_id = @ + 1, !.promises = promises,
                                        !.highest_accepted = highest_accepted]
                      ELSE IF ~is_quorum(promises, quorums.q1_size)
                        THEN Returned(Pending)
                      ELSE [IdleCall EXCEPT !.pc = "phase2", !.proposal = me.proposal,
                                            !.block = me.block,
                                            !.value = value_to_accept]]
        /\ UNCHANGED <<engine, blockchain, bench, driver, tasks, pbftVars, out, committed, gossipVars, quorumlessVars,
                       quorums, current_proposal, fnVars>>

\* propose, phase 2: AcceptRequest to the next acceptor.
PaxosAccept(c) ==
    LET me == call[c]
        r == paxos_handle_accept(acceptors[me.node_id], me.proposal, me.value)
        accepted == IF r.accepted THEN me.accepted \cup {me.node_id} ELSE me.accepted
    IN  /\ engine = "FlexiblePaxos"
        /\ me.pc = "phase2"
        /\ acceptors' = [acceptors EXCEPT ![me.node_id] = r.acceptor]
        /\ call' = [call EXCEPT ![c] =
                      IF me.node_id + 1 < TotalNodes
                        THEN [me EXCEPT !.node_id = @ + 1, !.accepted = accepted]
                        ELSE [me EXCEPT !.node_id = 0, !.accepted = accepted,
                                        !.pc = "decide"]]
        /\ UNCHANGED <<engine, blockchain, bench, driver, tasks, pbftVars, out, committed, gossipVars, quorumlessVars,
                       quorums, current_proposal, fnVars>>

\* Variant: a quorate call reports the block it was handed.
ReturnOwnBlock(c) ==
    LET me == call[c]
    IN  /\ engine = "FlexiblePaxos"
        /\ me.pc = "decide"
        /\ IF is_quorum(me.accepted, quorums.q2_size)
             THEN /\ committed' = committed \cup {me.block.index}
                  /\ call' = [call EXCEPT ![c] = Returned(Committed(me.block))]
             ELSE /\ UNCHANGED committed
                  /\ call' = [call EXCEPT ![c] = Returned(Pending)]
        /\ UNCHANGED <<engine, blockchain, bench, driver, tasks, pbftVars, out, gossipVars, quorumlessVars,
                       quorums, acceptors, current_proposal, fnVars>>

\* propose, the Q2 check: commit block.index and return Committed(value_to_accept),
\* or return Pending.
PaxosReturn(c) ==
    LET me == call[c]
    IN  /\ engine = "FlexiblePaxos"
        /\ me.pc = "decide"
        /\ IF is_quorum(me.accepted, quorums.q2_size)
             THEN /\ committed' = committed \cup {me.block.index}
                  /\ call' = [call EXCEPT ![c] = Returned(Committed(me.value))]
             ELSE /\ UNCHANGED committed
                  /\ call' = [call EXCEPT ![c] = Returned(Pending)]
        /\ UNCHANGED <<engine, blockchain, bench, driver, tasks, pbftVars, out, gossipVars, quorumlessVars,
                       quorums, acceptors, current_proposal, fnVars>>

\* handle_message: returns Pending, writes nothing.
PaxosHandleMessage(message) ==
    /\ engine = "FlexiblePaxos"
    /\ UNCHANGED vars

(***************************************************************************)
(* Functions checked on their own                                          *)
(***************************************************************************)
\* Largest cluster size and vote count handed to quorum_size / has_quorum.
MaxNodes == 10
\* Largest argument handed to FlexiblePaxos::new.
MaxSize == 6

NoOutput == [called |-> FALSE]

\* A vote Vec of the given length (distinct senders 0, 1, ...).
VotesOfLen(n) == [i \in 1 .. n |-> i - 1]

\* NodeState::quorum_size and NodeState::has_quorum on the drawn arguments.
QuorumCall ==
    /\ engine = "quorum_size"
    /\ output = NoOutput
    /\ output' = [called |-> TRUE,
                  quorum_size |-> quorum_size(input.total_nodes),
                  has_quorum |-> has_quorum(VotesOfLen(input.votes), input.total_nodes)]
    /\ UNCHANGED <<engine, blockchain, bench, driver, tasks, pbftVars, out, committed, gossipVars, quorumlessVars,
                   paxosVars, input>>

\* FlexiblePaxos::new on the drawn arguments.
NewCall ==
    /\ engine = "new"
    /\ output = NoOutput
    /\ output' = [called |-> TRUE,
                  instance |-> new(input.total_nodes, input.q1_size, input.q2_size)]
    /\ UNCHANGED <<engine, blockchain, bench, driver, tasks, pbftVars, out, committed, gossipVars, quorumlessVars,
                   paxosVars, input>>

(***************************************************************************)
(* ConsensusAlgorithmAdapter                                               *)
(***************************************************************************)
\* ConsensusResult::Rejected(String)
Rejected(reason) == [kind |-> "Rejected", reason |-> reason]

\* Result<T, Box<dyn Error>>
Ok(x) == [ok |-> TRUE, value |-> x]
Err(e) == [ok |-> FALSE, error |-> e]

Reasons == {"invalid block", "stale view"}
Errors == {"network error", "storage error"}

\* What the wrapped engine's propose may hand back.
ProposeResults ==
    {Ok(Committed(b)) : b \in TraitBlocks}
        \cup {Ok(Pending)}
        \cup {Ok(Rejected(reason)) : reason \in Reasons}
        \cup {Err(e) : e \in Errors}

\* The wrapped engine, as far as the adapter reads it.
Algorithms ==
    [propose : ProposeResults,
     name : {"Gossip", "Flexible Paxos"},
     requires_majority : BOOLEAN,
     committed : SUBSET Indexes]

\* Variant: a rejection is surfaced as an error.
execute_rejecting(algorithm) ==
    LET r == algorithm.propose
    IN  IF ~r.ok THEN Err(r.error)
        ELSE IF r.value.kind = "Committed" THEN Ok(Some(r.value.block))
        ELSE IF r.value.kind = "Pending" THEN Ok(None)
        ELSE Err(r.value.reason)

\* execute: `propose(block).await?` hands an error to the caller; the match maps
\* Committed to Some, Pending and Rejected to None.
execute(algorithm) ==
    LET r == algorithm.propose
    IN  IF ~r.ok THEN Err(r.error)
        ELSE IF r.value.kind = "Committed" THEN Ok(Some(r.value.block))
        ELSE IF r.value.kind = "Pending" THEN Ok(None)
        ELSE Ok(None)

\* name, requirements and is_committed of the adapter call the wrapped engine.
adapter_name(algorithm) == algorithm.name

adapter_requirements(algorithm) == [requires_majority |-> algorithm.requires_majority]

adapter_is_committed(algorithm, block_index) == block_index \in algorithm.committed

\* One use of an adapter: every method of ConsensusStrategy called on it.
AdapterCall ==
    /\ engine = "adapter"
    /\ output = NoOutput
    /\ output' = [called |-> TRUE,
                  execute |-> execute(input),
                  name |-> adapter_name(input),
                  requirements |-> adapter_requirements(input),
                  is_committed |-> {i \in Indexes : adapter_is_committed(input, i)}]
    /\ UNCHANGED <<engine, blockchain, bench, driver, tasks, pbftVars, out, committed, gossipVars, quorumlessVars,
                   paxosVars, input>>

(***************************************************************************)
(* The store: DatabaseManager over the SQLite table `blockchain`           *)
(***************************************************************************)
\* Largest block index handed to the store, longest batch handed to save_blocks.
MaxIndex == 2
MaxBatch == 2

\* Hashes are hex strings; a hash computed by calculate_hash is kept as the
\* content it was computed from (SHA-256 taken as collision-free).
GenesisHash == [hex |-> "0000_genesis"]
WrongHash == [hex |-> "wrong_hash"]

\* serde_json::to_string(&block.data): the array of objects, each object the
\* fields of MarketData in declaration order.
to_string(data) ==
    [i \in 1 .. Len(data) |->
        <<data[i].asset, data[i].price, data[i].source, data[i].timestamp>>]

\* serde_json::from_str::<Vec<MarketData>>(&data_json)
from_str(data_json) ==
    [i \in 1 .. Len(data_json) |->
        [asset |-> data_json[i][1], price |-> data_json[i][2],
         source |-> data_json[i][3], timestamp |-> data_json[i][4]]]

\* Block::calculate_hash: SHA-256 over index, timestamp, JSON(data),
\* previous_hash and nonce.
calculate_hash(block) ==
    [sha256 |-> [index |-> block.index, timestamp |-> block.timestamp,
                 data_str |-> to_string(block.data),
                 previous_hash |-> block.previous_hash, nonce |-> block.nonce]]

\* The blocks of the store's tests: create_test_block(index, previous_hash).
create_test_block(index, previous_hash) ==
    LET block == [index |-> index,
                  timestamp |-> 1234567890 + index,
                  data |-> <<[asset |-> "BTC", price |-> 50000 + index,
                              source |-> "Test", timestamp |-> 1234567890 + index]>>,
                  previous_hash |-> previous_hash,
                  hash |-> WrongHash,
                  nonce |-> 0]
    IN  [block EXCEPT !.hash = calculate_hash(block)]

\* The linked chain of the tests: block 1 on the genesis hash, block i on block i-1.
RECURSIVE TestChain(_)
TestChain(index) ==
    IF index = 1 THEN create_test_block(1, GenesisHash)
    ELSE create_test_block(index, TestChain(index - 1).hash)

\* The blocks handed to the store: for every index the block of the linked
\* chain and the test block on WrongHash, each with its computed hash and with
\* a hash that is not its content hash.
StoreBlocksAt(index) ==
    LET made == {TestChain(index), create_test_block(index, WrongHash)}
    IN  made \cup {[b EXCEPT !.hash = WrongHash] : b \in made}

StoreBlocks == UNION {StoreBlocksAt(index) : index \in 1 .. MaxIndex}

\* The blocks batches are made of: the linked chain and a block for the last
\* index whose hash is that of the first block.
BatchBlocks ==
    {TestChain(index) : index \in 1 .. MaxIndex}
        \cup {[TestChain(MaxIndex) EXCEPT !.hash = TestChain(1).hash]}

RECURSIVE SeqsUpTo(_, _)
SeqsUpTo(S, n) ==
    IF n = 0 THEN {<<>>}
    ELSE LET shorter == SeqsUpTo(S, n - 1)
         IN  shorter \cup {Append(s, x) : s \in {q \in shorter : Len(q) = n - 1}, x \in S}

Batches == SeqsUpTo(BatchBlocks, MaxBatch)

\* The column values bound by params![...] in the INSERT.
to_row(block) ==
    [block_index |-> block.index, timestamp |-> block.timestamp,
     data_json |-> to_string(block.data), prev_hash |-> block.previous_hash,
     hash |-> block.hash, nonce |-> block.nonce]

\* Variant: the block is handed back with its hash recomputed.
from_row_rehashed(row) ==
    LET block == [index |-> row.block_index, timestamp |-> row.timestamp,
                  data |-> from_str(row.data_json), previous_hash |-> row.prev_hash,
                  hash |-> row.hash, nonce |-> row.nonce]
    IN  [block EXCEPT !.hash = calculate_hash(block)]

\* The closure handed to query_row / query_map: a Block from the columns.
from_row(row) ==
    [index |-> row.block_index, timestamp |-> row.timestamp,
     data |-> from_str(row.data_json), previous_hash |-> row.prev_hash,
     hash |-> row.hash, nonce |-> row.nonce]

\* Variant: only block_index is UNIQUE.
insert_unique_index(table, row) ==
    IF \E r \in table : r.block_index = row.block_index
      THEN [ok |-> FALSE, table |-> table]
      ELSE [ok |-> TRUE, table |-> table \cup {row}]

\* INSERT INTO blockchain: block_index and hash are UNIQUE (init); a row that
\* breaks either constraint is refused and the table is left as it was.
insert(table, row) ==
    IF \E r \in table : r.block_index = row.block_index \/ r.hash = row.hash
      THEN [ok |-> FALSE, table |-> table]
      ELSE [ok |-> TRUE, table |-> table \cup {row}]

\* The statements of save_blocks inside the transaction, block by block; the
\* first failing INSERT ends the loop.
RECURSIVE InsertAll(_, _, _)
InsertAll(table, blocks, i) ==
    IF i > Len(blocks) THEN [ok |-> TRUE, table |-> table]
    ELSE LET r == insert(table, to_row(blocks[i]))
         IN  IF r.ok THEN InsertAll(r.table, blocks, i + 1)
             ELSE [ok |-> FALSE, table |-> r.table]

\* Variant: the rows inserted before the failing one are kept.
save_blocks_partial(blocks) ==
    LET r == InsertAll(blockchain, blocks, 1)
    IN  [table |-> r.table,
         result |-> IF r.ok THEN Ok(Len(blocks)) ELSE Err("Sqlite")]

\* save_blocks: the transaction is committed after the last INSERT and rolled
\* back (dropped) when `?` leaves the function early.
save_blocks(blocks) ==
    LET r == InsertAll(blockchain, blocks, 1)
    IN  IF r.ok THEN [table |-> r.table, result |-> Ok(Len(blocks))]
        ELSE [table |-> blockchain, result |-> Err("Sqlite")]

save_block(block) ==
    LET r == insert(blockchain, to_row(block))
    IN  [table |-> r.table, result |-> IF r.ok THEN Ok(0) ELSE Err("Sqlite")]

get_block_by_index(index) ==
    LET rows == {r \in blockchain : r.block_index = index}
    IN  IF rows = {} THEN Err("NotFound")
        ELSE Ok(from_row(CHOOSE r \in rows : TRUE))

get_block_by_hash(hash) ==
    LET rows == {r \in blockchain : r.hash = hash}
    IN  IF rows = {} THEN Err("NotFound")
        ELSE Ok(from_row(CHOOSE r \in rows : TRUE))

get_block_count == Cardinality(blockchain)

\* ORDER BY block_index DESC
RECURSIVE OrderDesc(_)
OrderDesc(rows) ==
    IF rows = {} THEN <<>>
    ELSE LET top == CHOOSE r \in rows : \A q \in rows : q.block_index <= r.block_index
         IN  <<top>> \o OrderDesc(rows \ {top})

\* i64::MAX, the limit verify_chain passes (any limit above the row count
\* reads every row; the model's integers are narrower than the source's).
I64Max == 2147483647

query_latest_blocks(limit) ==
    LET rows == OrderDesc(blockchain)
        n == IF limit < Len(rows) THEN limit ELSE Len(rows)
    IN  [i \in 1 .. n |-> from_row(rows[i])]

\* sorted_blocks.sort_by_key(|b| b.index)
RECURSIVE sort_by_index(_)
sort_by_index(blocks) ==
    IF blocks = <<>> THEN <<>>
    ELSE LET i == CHOOSE j \in 1 .. Len(blocks) :
                    /\ \A k \in 1 .. Len(blocks) : blocks[j].index <= blocks[k].index
                    /\ \A k \in 1 .. (j - 1) : blocks[k].index # blocks[j].index
             others == [k \in 1 .. (Len(blocks) - 1) |->
                          IF k < i THEN blocks[k] ELSE blocks[k + 1]]
         IN  <<blocks[i]>> \o sort_by_index(others)

\* Variant: the links are checked, the hashes are not recomputed.
verify_links_only ==
    LET sorted_blocks == sort_by_index(query_latest_blocks(I64Max))
    IN  Ok(\A i \in 2 .. Len(sorted_blocks) :
              sorted_blocks[i].previous_hash = sorted_blocks[i - 1].hash)

verify_chain ==
    LET blocks == query_latest_blocks(I64Max)
        sorted_blocks == sort_by_index(blocks)
    IN  IF blocks = <<>> THEN Ok(TRUE)
        ELSE Ok(\A i \in 2 .. Len(sorted_blocks) :
                  /\ sorted_blocks[i].previous_hash = sorted_blocks[i - 1].hash
                  /\ calculate_hash(sorted_blocks[i]) = sorted_blocks[i].hash)

\* What a call on the store handed back.
Called(op, arg, res) == [op |-> op, arg |-> arg, result |-> res]

StoreReads == <<engine, pbftVars, committed, out, gossipVars, quorumlessVars,
                paxosVars, bench, driver, tasks, input>>

SaveBlock(block) ==
    /\ engine = "store"
    /\ blockchain' = save_block(block).table
    /\ output' = Called("save_block", block, save_block(block).result)
    /\ UNCHANGED StoreReads

SaveBlocks(blocks) ==
    /\ engine = "store"
    /\ blockchain' = save_blocks(blocks).table
    /\ output' = Called("save_blocks", blocks, save_blocks(blocks).result)
    /\ UNCHANGED StoreReads

GetBlockByIndex(index) ==
    /\ engine = "store"
    /\ output' = Called("get_block_by_index", index, get_block_by_index(index))
    /\ UNCHANGED <<blockchain, StoreReads>>

GetBlockByHash(hash) ==
    /\ engine = "store"
    /\ output' = Called("get_block_by_hash", hash, get_block_by_hash(hash))
    /\ UNCHANGED <<blockchain, StoreReads>>

GetBlockCount ==
    /\ engine = "store"
    /\ output' = Called("get_block_count", 0, Ok(get_block_count))
    /\ UNCHANGED <<blockchain, StoreReads>>

VerifyChain ==
    /\ engine = "store"
    /\ output' = Called("verify_chain", 0, verify_chain)
    /\ UNCHANGED <<blockchain, StoreReads>>

\* delete_block: true when a row was deleted.
DeleteBlock(index) ==
    /\ engine = "store"
    /\ blockchain' = {r \in blockchain : r.block_index # index}
    /\ output' = Called("delete_block", index,
                        Ok(\E r \in blockchain : r.block_index = index))
    /\ UNCHANGED StoreReads

(***************************************************************************)
(* benchmark_consensus_strategy and the round loop of the comparison       *)
(***************************************************************************)
\* Blocks per run and runs per strategy.
MaxBlocks == 2
MaxRounds == 2

\* NODE_ID of examples/trilemma_comparison.rs.
BenchNode == 0

\* What `start.elapsed().as_millis()` may read.
Elapsed == {1, 2}

\* The strategies handed to the benchmark: the three of comparison.rs, the five
\* adapters of the comparison example, and any other implementor of the trait.
Strategies ==
    {"No-Consensus", "Simple Majority", "Simplified PoW",
     "PBFT", "Gossip", "Eventual", "Quorum-less", "Flexible Paxos", "dyn"}

\* The block sequences benchmarked: as the example generates them, the k-th block
\* carries the k-th index (indexes past the last of Indexes start again at 1).
BenchSequences ==
    {blocks \in SeqsUpTo(TraitBlocks, MaxBlocks) :
        \A k \in DOMAIN blocks : blocks[k].index = ((k - 1) % Cardinality(Indexes)) + 1}

\* A strategy instance after construction: the fields of every strategy and of
\* every wrapped engine, of which each strategy writes its own.
NewInstance ==
    [committed |-> {},
     votes |-> EmptyMap,
     pre_prepares |-> [i \in Indexes |-> <<>>],
     prepares |-> [i \in Indexes |-> <<>>],
     commits |-> [i \in Indexes |-> <<>>],
     committed_blocks |-> <<>>,
     state |-> EmptyMap,
     acceptors |-> new(TotalNodes, 2, 3).acceptors,
     current_proposal |-> 0]

\* What one call of execute hands back, with the instance it leaves behind.
\* A call that never returns hands back nothing.
Outcome(res, inst) == [returns |-> TRUE, ret |-> res, inst |-> inst]
NeverReturns(inst) == [returns |-> FALSE, inst |-> inst]

\* NoConsensusStrategy::execute
no_consensus_execute(inst, block) ==
    Outcome(Ok(Some(block)), [inst EXCEPT !.committed = @ \cup {block.index}])

majority_size(total_nodes) == (total_nodes \div 2) + 1

\* SimpleMajorityStrategy::execute: the own vote and the simulated vote of every
\* other node are inserted, then the count is compared with the majority.
simple_majority_execute(inst, block) ==
    LET entries == MapOrInsert(inst.votes, block.index, {})
        block_votes == (entries[block.index] \cup {BenchNode})
                           \cup {i \in Nodes : i # BenchNode}
        voted == [inst EXCEPT !.votes = [entries EXCEPT ![block.index] = block_votes]]
    IN  IF Cardinality(block_votes) >= majority_size(TotalNodes)
          THEN Outcome(Ok(Some(block)), [voted EXCEPT !.committed = @ \cup {block.index}])
          ELSE Outcome(Ok(None), voted)

\* SimplifiedPoWStrategy::execute: mine_block searches the nonces up to 100000;
\* `minable` holds the block contents for which the search meets the target.
simplified_pow_execute(inst, minable, block) ==
    IF block.hash \in minable
      THEN Outcome(Ok(Some(block)), [inst EXCEPT !.committed = @ \cup {block.index}])
      ELSE Outcome(Ok(None), inst)

\* PBFTConsensus::propose on a node that receives no message.
pbft_propose(inst, block) ==
    LET s == block.index
        pre == IF is_primary(BenchNode, s)
                 THEN [inst EXCEPT !.pre_prepares[s] = RecordVote(@, BenchNode)]
                 ELSE inst
        prepared == [pre EXCEPT !.prepares[s] = RecordVote(@, BenchNode)]
        voted == [prepared EXCEPT !.commits[s] = RecordVote(@, BenchNode)]
        commit_quorum == has_quorum(voted.commits[s], TotalNodes)
        done == [voted EXCEPT !.committed_blocks = RecordCommitted(@, s, commit_quorum)]
    IN  IF ~has_quorum(prepared.prepares[s], TotalNodes)
          THEN [result |-> Ok(Pending), inst |-> prepared]
        ELSE IF commit_quorum
          THEN [result |-> Ok(Committed(block)), inst |-> done]
        ELSE [result |-> Ok(Pending), inst |-> done]

\* Variant: an index that already has an entry in `state` is left pending.
gossip_propose_once(inst, block) ==
    IF block.index \in DOMAIN inst.state
      THEN [result |-> Ok(Pending), inst |-> inst]
      ELSE [result |-> Ok(Committed(block)),
            inst |-> [inst EXCEPT !.state = MapInsert(@, block.index, {}),
                                  !.committed = @ \cup {block.index}]]

\* GossipConsensus::propose
gossip_propose(inst, block) ==
    [result |-> Ok(Committed(block)),
     inst |-> [inst EXCEPT !.state = MapInsert(@, block.index, {}),
                           !.committed = @ \cup {block.index}]]

\* EventualConsensus::propose
eventual_propose(inst, block) ==
    [result |-> Ok(Committed(block)),
     inst |-> [inst EXCEPT !.committed = @ \cup {block.index}]]

\* FlexiblePaxos::propose with no other call in flight: both phases over the
\* acceptors of the instance, quorums (2, 3) as in the comparison example.
paxos_propose(inst, block) ==
    LET proposal == inst.current_proposal + (TotalNodes * 1000)
        p1 == [i \in Nodes |-> paxos_handle_prepare(inst.acceptors[i], proposal)]
        promises == {i \in Nodes : p1[i].promise}
        seen == {p1[i].accepted.value : i \in {j \in promises : p1[j].accepted # None}}
        value_to_accept ==
            IF seen = {} THEN block
            ELSE (CHOOSE a \in seen : \A b \in seen : a.proposal >= b.proposal).value
        p2 == [i \in Nodes |-> paxos_handle_accept(p1[i].acceptor, proposal,
                                                   value_to_accept)]
        accepted == {i \in Nodes : p2[i].accepted}
        promised == [inst EXCEPT !.current_proposal = proposal,
                                 !.acceptors = [i \in Nodes |-> p1[i].acceptor]]
        asked == [promised EXCEPT !.acceptors = [i \in Nodes |-> p2[i].acceptor]]
    IN  IF ~is_quorum(promises, 2)
          THEN [result |-> Ok(Pending), inst |-> promised]
        ELSE IF is_quorum(accepted, 3)
          THEN [result |-> Ok(Committed(value_to_accept)),
                inst |-> [asked EXCEPT !.committed = @ \cup {block.index}]]
        ELSE [result |-> Ok(Pending), inst |-> asked]

\* ConsensusAlgorithmAdapter::execute around a propose that returned.
adapter_execute(proposed) ==
    Outcome(execute([propose |-> proposed.result, name |-> "Gossip",
                     requires_majority |-> FALSE, committed |-> {}]),
            proposed.inst)

\* Any implementor of ConsensusStrategy: each result the trait allows, with or
\* without the index committed.
DynOutcomes(inst, block) ==
    LET kept == [inst EXCEPT !.committed = @ \cup {block.index}]
    IN  {Outcome(Ok(Some(block)), kept), Outcome(Ok(None), inst),
         Outcome(Err("network error"), inst), Outcome(Err("storage error"), kept)}

\* strategy.execute(block): the outcomes the call can have.
StrategyExecute(strategy, inst, minable, block) ==
    CASE strategy = "No-Consensus" -> {no_consensus_execute(inst, block)}
      [] strategy = "Simple Majority" -> {simple_majority_execute(inst, block)}
      [] strategy = "Simplified PoW" -> {simplified_pow_execute(inst, minable, block)}
      [] strategy = "PBFT" -> {adapter_execute(pbft_propose(inst, block))}
      [] strategy = "Gossip" -> {adapter_execute(gossip_propose(inst, block))}
      [] strategy = "Eventual" -> {adapter_execute(eventual_propose(inst, block))}
      [] strategy = "Flexible Paxos" -> {adapter_execute(paxos_propose(inst, block))}
      \* QuorumlessConsensus::propose waits for a read lock on `votes` while it
      \* holds the write guard.
      [] strategy = "Quorum-less" -> {NeverReturns(inst)}
      [] OTHER -> DynOutcomes(inst, block)

\* strategy.is_committed(index)
strategy_is_committed(strategy, inst, index) ==
    IF strategy = "PBFT" THEN index \in Range(inst.committed_blocks)
    ELSE index \in inst.committed

Least(samples) ==
    IF samples = <<>> THEN 0
    ELSE CHOOSE x \in Range(samples) : \A y \in Range(samples) : x <= y

Greatest(samples) ==
    IF samples = <<>> THEN 0
    ELSE CHOOSE x \in Range(samples) : \A y \in Range(samples) : x >= y

\* The locals of benchmark_consensus_strategy at entry.
BenchLocals ==
    [pc |-> "running", pos |-> 0, latencies |-> <<>>,
     committed_count |-> 0, failed_count |-> 0, error_count |-> 0,
     data_integrity_maintained |-> TRUE]

\* Variant: an error is counted as a failure as well.
count_error_twice(locals, res, still_committed, elapsed) ==
    [locals EXCEPT
       !.pos = @ + 1,
       !.latencies = Append(@, elapsed),
       !.committed_count = IF res.ok /\ res.value # None THEN @ + 1 ELSE @,
       !.failed_count = IF res.ok /\ res.value # None THEN @ ELSE @ + 1,
       !.error_count = IF ~res.ok THEN @ + 1 ELSE @,
       !.data_integrity_maintained = IF ~res.ok /\ still_committed THEN FALSE ELSE @]

\* One pass of `for block in blocks`: the sample is pushed and the match on the
\* result bumps one counter.
count_result(locals, res, still_committed, elapsed) ==
    [locals EXCEPT
       !.pos = @ + 1,
       !.latencies = Append(@, elapsed),
       !.committed_count = IF res.ok /\ res.value # None THEN @ + 1 ELSE @,
       !.failed_count = IF res.ok /\ res.value = None THEN @ + 1 ELSE @,
       !.error_count = IF ~res.ok THEN @ + 1 ELSE @,
       !.data_integrity_maintained = IF ~res.ok /\ still_committed THEN FALSE ELSE @]

\* ConsensusMetrics, the integer fields; `samples` is the length of the local
\* Vec of latencies when the struct is built.
ConsensusMetrics(blocks, locals) ==
    [total_blocks |-> Len(blocks),
     committed_blocks |-> locals.committed_count,
     failed_blocks |-> locals.failed_count,
     error_blocks |-> locals.error_count,
     min_latency_ms |-> Least(locals.latencies),
     max_latency_ms |-> Greatest(locals.latencies),
     data_integrity_maintained |-> locals.data_integrity_maintained,
     samples |-> Len(locals.latencies)]

BenchReads == <<engine, pbftVars, committed, out, gossipVars, quorumlessVars,
                paxosVars, blockchain, driver, tasks, fnVars>>

\* One block of the loop, for a call of execute that returns.
BenchIterate(elapsed) ==
    /\ engine = "bench"
    /\ bench.pc = "running"
    /\ bench.pos < Len(bench.blocks)
    /\ \E o \in StrategyExecute(bench.strategy, bench.inst, bench.minable,
                                bench.blocks[bench.pos + 1]) :
          /\ o.returns
          /\ LET block == bench.blocks[bench.pos + 1]
                 still == strategy_is_committed(bench.strategy, o.inst, block.index)
                 locals == count_result([f \in DOMAIN BenchLocals |-> bench[f]],
                                        o.ret, still, elapsed)
             IN  bench' = [f \in DOMAIN bench |->
                             IF f \in DOMAIN locals THEN locals[f]
                             ELSE IF f = "inst" THEN o.inst
                             ELSE bench[f]]
    /\ UNCHANGED BenchReads

\* One block of the loop, for a call of execute that does not return.
BenchBlocked ==
    /\ engine = "bench"
    /\ bench.pc = "running"
    /\ bench.pos < Len(bench.blocks)
    /\ \E o \in StrategyExecute(bench.strategy, bench.inst, bench.minable,
                                bench.blocks[bench.pos + 1]) :
          /\ ~o.returns
          /\ bench' = [bench EXCEPT !.pc = "blocked", !.inst = o.inst]
    /\ UNCHANGED BenchReads

\* The loop is over: the metrics are built and pushed to round_metrics.
BenchReturn ==
    /\ engine = "bench"
    /\ bench.pc = "running"
    /\ bench.pos = Len(bench.blocks)
    /\ bench' = [bench EXCEPT
                   !.pc = "returned",
                   !.round_metrics = Append(@, ConsensusMetrics(bench.blocks, bench))]
    /\ UNCHANGED BenchReads

\* The next run of a strategy of the repository over the same blocks: on the
\* same instance, as the round loop of the comparison example does, or on a
\* newly built one.
BenchNextRound(fresh) ==
    /\ engine = "bench"
    /\ bench.pc = "returned"
    /\ bench.strategy # "dyn"
    /\ Len(bench.round_metrics) < MaxRounds
    /\ bench' = [f \in DOMAIN bench |->
                   IF f \in DOMAIN BenchLocals THEN BenchLocals[f]
                   ELSE IF f = "inst" /\ fresh THEN NewInstance
                   ELSE IF f = "reused" THEN bench.reused /\ ~fresh
                   ELSE bench[f]]
    /\ UNCHANGED BenchReads

(***************************************************************************)
(* Aggregation over rounds (examples/shared/mod.rs)                        *)
(***************************************************************************)
\* An f64 computed as a quotient: numerator and denominator, 0 / 0 being NaN.
Ratio(num, den) == [num |-> num, den |-> den]

\* The f64 x equals the integer n.
RatioIs(x, n) == x.den # 0 /\ x.num = n * x.den

RECURSIVE Sum(_)
Sum(xs) == IF xs = <<>> THEN 0 ELSE Head(xs) + Sum(Tail(xs))

\* `.iter().map(|m| m.field)`
Column(round_metrics, field) == [k \in DOMAIN round_metrics |-> round_metrics[k][field]]

\* `xs.iter().sum::<f64>() / count`
mean(xs) == Ratio(Sum(xs), Len(xs))

\* `(xs.iter().sum::<usize>() as f64 / count) as usize`: the cast truncates.
mean_as_usize(xs) == Sum(xs) \div Len(xs)

\* `sum((x - mean)^2) / (len - 1)` under the square root, for a mean num / den.
sample_variance(xs, avg) ==
    Ratio(Sum([k \in DOMAIN xs |-> ((xs[k] * avg.den) - avg.num) * ((xs[k] * avg.den) - avg.num)]),
          avg.den * avg.den * (Len(xs) - 1))

\* Variant: no early return for fewer than two samples.
std_dev_unguarded(xs, avg) == sample_variance(xs, avg)

\* The square of a reported standard deviation: 0.0 for fewer than two samples,
\* the sample variance otherwise.
std_dev_squared(xs, avg) ==
    IF Len(xs) < 2 THEN Ratio(0, 1) ELSE sample_variance(xs, avg)

\* calculate_runtime_std_dev
calculate_runtime_std_dev(runtimes) == std_dev_squared(runtimes, mean(runtimes))

\* calculate_metrics_std_dev
calculate_metrics_std_dev(round_metrics, avg_metrics) ==
    [latency_std_dev |->
        std_dev_squared(Column(round_metrics, "avg_latency_ms"), avg_metrics.avg_latency_ms),
     throughput_std_dev |->
        std_dev_squared(Column(round_metrics, "throughput_blocks_per_sec"),
                        avg_metrics.throughput_blocks_per_sec),
     commit_rate_std_dev |->
        std_dev_squared(Column(round_metrics, "commit_rate"), avg_metrics.commit_rate),
     error_rate_std_dev |->
        std_dev_squared(Column(round_metrics, "error_rate"), avg_metrics.error_rate)]

\* Variant: the latency bounds of the first round are reported.
average_of_first_bounds(round_metrics) ==
    IF round_metrics = <<>>
      THEN [total_blocks |-> 0, committed_blocks |-> 0, failed_blocks |-> 0,
            error_blocks |-> 0, min_latency_ms |-> 0, max_latency_ms |-> 0,
            avg_latency_ms |-> Ratio(0, 1),
            throughput_blocks_per_sec |-> Ratio(0, 1), commit_rate |-> Ratio(0, 1),
            error_rate |-> Ratio(0, 1), data_integrity_maintained |-> TRUE]
      ELSE [total_blocks |-> round_metrics[1].total_blocks,
            committed_blocks |-> mean_as_usize(Column(round_metrics, "committed_blocks")),
            failed_blocks |-> mean_as_usize(Column(round_metrics, "failed_blocks")),
            error_blocks |-> mean_as_usize(Column(round_metrics, "error_blocks")),
            min_latency_ms |-> round_metrics[1].min_latency_ms,
            max_latency_ms |-> round_metrics[1].max_latency_ms,
            avg_latency_ms |-> mean(Column(round_metrics, "avg_latency_ms")),
            throughput_blocks_per_sec |->
                mean(Column(round_metrics, "throughput_blocks_per_sec")),
            commit_rate |-> mean(Column(round_metrics, "commit_rate")),
            error_rate |-> mean(Column(round_metrics, "error_rate")),
            data_integrity_maintained |->
                \A k \in DOMAIN round_metrics : round_metrics[k].data_integrity_maintained]

\* calculate_average_metrics
calculate_average_metrics(round_metrics) ==
    IF round_metrics = <<>>
      THEN [total_blocks |-> 0, committed_blocks |-> 0, failed_blocks |-> 0,
            error_blocks |-> 0, min_latency_ms |-> 0, max_latency_ms |-> 0,
            avg_latency_ms |-> Ratio(0, 1),
            throughput_blocks_per_sec |-> Ratio(0, 1), commit_rate |-> Ratio(0, 1),
            error_rate |-> Ratio(0, 1), data_integrity_maintained |-> TRUE]
      ELSE [total_blocks |-> round_metrics[1].total_blocks,
            committed_blocks |-> mean_as_usize(Column(round_metrics, "committed_blocks")),
            failed_blocks |-> mean_as_usize(Column(round_metrics, "failed_blocks")),
            error_blocks |-> mean_as_usize(Column(round_metrics, "error_blocks")),
            min_latency_ms |-> Least(Column(round_metrics, "min_latency_ms")),
            max_latency_ms |-> Greatest(Column(round_metrics, "max_latency_ms")),
            avg_latency_ms |-> mean(Column(round_metrics, "avg_latency_ms")),
            throughput_blocks_per_sec |->
                mean(Column(round_metrics, "throughput_blocks_per_sec")),
            commit_rate |-> mean(Column(round_metrics, "commit_rate")),
            error_rate |-> mean(Column(round_metrics, "error_rate")),
            data_integrity_maintained |->
                \A k \in DOMAIN round_metrics : round_metrics[k].data_integrity_maintained]

\* The blocks of a round and the seconds a round may take.
RoundBlocks == 2
Runtimes == {1, 2}

\* The metrics a run over RoundBlocks blocks that took `runtime` seconds can
\* return: the counters add up to the blocks, the rates are the percentages of
\* the counters, the average latency lies between the bounds, the throughput
\* is blocks per second.
RoundMetrics(runtime) ==
    {m \in [total_blocks : {RoundBlocks},
            committed_blocks : 0 .. RoundBlocks,
            failed_blocks : 0 .. RoundBlocks,
            error_blocks : 0 .. RoundBlocks,
            min_latency_ms : Elapsed,
            max_latency_ms : Elapsed,
            avg_latency_ms : Elapsed,
            throughput_blocks_per_sec : {RoundBlocks \div runtime},
            commit_rate : {(c * 100) \div RoundBlocks : c \in 0 .. RoundBlocks},
            error_rate : {(c * 100) \div RoundBlocks : c \in 0 .. RoundBlocks},
            data_integrity_maintained : BOOLEAN] :
        /\ m.committed_blocks + m.failed_blocks + m.error_blocks = m.total_blocks
        /\ m.commit_rate = (m.committed_blocks * 100) \div RoundBlocks
        /\ m.error_rate = (m.error_blocks * 100) \div RoundBlocks
        /\ m.min_latency_ms <= m.avg_latency_ms
        /\ m.avg_latency_ms <= m.max_latency_ms
        /\ (m.error_blocks = 0 => m.data_integrity_maintained)}

\* The rounds of one strategy, up to n of them: the metrics and the runtime of
\* each.
Rounds(n) ==
    SeqsUpTo(UNION {{[metrics |-> m, runtime |-> runtime] : m \in RoundMetrics(runtime)} :
                        runtime \in Runtimes},
             n)

\* The three calls the round loop's caller makes on round_metrics and
\* round_runtimes.
AggregateCall ==
    /\ engine = "aggregate"
    /\ output = NoOutput
    /\ LET avg_metrics == calculate_average_metrics(input.round_metrics)
       IN  output' = [called |-> TRUE,
                      avg_metrics |-> avg_metrics,
                      metrics_std_dev |->
                          calculate_metrics_std_dev(input.round_metrics, avg_metrics),
                      runtime_std_dev |-> calculate_runtime_std_dev(input.round_runtimes)]
    /\ UNCHANGED <<engine, blockchain, bench, driver, tasks, pbftVars, out, committed, gossipVars,
                   quorumlessVars, paxosVars, input>>

(***************************************************************************)
(* network::broadcast_message                                              *)
(***************************************************************************)
\* "host:port" as the two sides of its last colon.
Address(host, port_text) == [host |-> host, port_text |-> port_text]

\* node_addresses of main.rs and of the comparison example.
ConfiguredAddresses ==
    <<Address("127.0.0.1", "8000"), Address("127.0.0.1", "8001"),
      Address("127.0.0.1", "8002"), Address("127.0.0.1", "8003")>>

\* `port_str.parse::<u16>()` on the port texts in use.
PortNumbers == [text \in {"8000", "8001", "8002", "8003"} |->
                  CASE text = "8000" -> 8000 [] text = "8001" -> 8001
                    [] text = "8002" -> 8002 [] text = "8003" -> 8003]

parse_u16(text) == IF text \in DOMAIN PortNumbers THEN Some(PortNumbers[text]) ELSE None

\* The ports a node may listen on: `8000 + node_id`, or the second argument.
NodePorts == {PortNumbers[text] : text \in DOMAIN PortNumbers} \cup {9000}

\* What a POST to an address may end in: a 2xx answer, a transport error, an
\* answer with another status.
SendResults == {"success", "refused", "status"}

\* send_message
send_message(answers, addr) ==
    IF answers[addr] = "success" THEN Ok(0)
    ELSE IF answers[addr] = "refused" THEN Err("network error")
    ELSE Err("HTTP error")

\* The addresses broadcast_message does not skip.
is_own(addr, current_node_port) == parse_u16(addr.port_text) = Some(current_node_port)

\* Variant: the first failed send ends the broadcast with its error.
RECURSIVE broadcast_until_error(_, _, _, _)
broadcast_until_error(answers, node_addresses, current_node_port, done) ==
    IF node_addresses = <<>> THEN [done EXCEPT !.returned = Ok(0)]
    ELSE LET addr == Head(node_addresses)
             rest == Tail(node_addresses)
         IN  IF is_own(addr, current_node_port)
               THEN broadcast_until_error(answers, rest, current_node_port, done)
             ELSE IF send_message(answers, addr).ok
               THEN broadcast_until_error(answers, rest, current_node_port,
                        [done EXCEPT !.sent = Append(@, addr),
                                     !.delivered = Append(@, addr)])
             ELSE [done EXCEPT !.sent = Append(@, addr),
                               !.returned = send_message(answers, addr)]

\* The `for addr in node_addresses` loop: the sends attempted, the sends
\* answered with success, the failures written to stderr.
RECURSIVE broadcast_loop(_, _, _, _)
broadcast_loop(answers, node_addresses, current_node_port, done) ==
    IF node_addresses = <<>> THEN [done EXCEPT !.returned = Ok(0)]
    ELSE LET addr == Head(node_addresses)
             rest == Tail(node_addresses)
         IN  IF is_own(addr, current_node_port)
               THEN broadcast_loop(answers, rest, current_node_port, done)
             ELSE IF send_message(answers, addr).ok
               THEN broadcast_loop(answers, rest, current_node_port,
                        [done EXCEPT !.sent = Append(@, addr),
                                     !.delivered = Append(@, addr)])
             ELSE broadcast_loop(answers, rest, current_node_port,
                        [done EXCEPT !.sent = Append(@, addr),
                                     !.logged = Append(@, addr)])

NothingSent == [called |-> TRUE, sent |-> <<>>, delivered |-> <<>>, logged |-> <<>>,
                returned |-> Ok(0)]

\* One call of network::broadcast_message.
BroadcastCall ==
    /\ engine = "network"
    /\ output = NoOutput
    /\ output' = broadcast_loop(input.answers, input.node_addresses,
                                input.current_node_port, NothingSent)
    /\ UNCHANGED <<engine, blockchain, bench, driver, tasks, pbftVars, out, committed, gossipVars,
                   quorumlessVars, paxosVars, input>>

(***************************************************************************)
(* The driver: main's ETL + consensus round loop                           *)
(***************************************************************************)
\* `for round in 0..3`
DriverRounds == 3

\* String::from("0000_genesis_hash")
DriverGenesis == [hex |-> "0000_genesis_hash"]

\* The normalised prices a round may extract.
Prices == {50000, 50001}

\* get_latest_block: the row with the greatest block_index.
get_latest_block ==
    IF blockchain = {} THEN Ok(None)
    ELSE Ok(Some(from_row(OrderDesc(blockchain)[1])))

\* What run_consensus may hand back for a block: every engine returns the block
\* it was handed, None for Pending or Rejected, or the engine's error.
run_consensus(kind, block) ==
    CASE kind = "Some" -> Ok(Some(block))
      [] kind = "None" -> Ok(None)
      [] OTHER -> Err("network error")

\* The locals of main before the loop, given what get_latest_block returned.
DriverStart(latest) ==
    LET found == latest.ok /\ latest.value # None
    IN  [pc |-> "round", round |-> 0,
         last_hash |-> IF found THEN latest.value.value.hash ELSE DriverGenesis,
         last_index |-> IF found THEN latest.value.value.index ELSE 0,
         last_timestamp |-> IF found THEN Some(latest.value.value.timestamp) ELSE None,
         new_block |-> None,
         loaded |-> IF found THEN latest.value.value.index ELSE 0,
         saved |-> None,
         attempt |-> None]

\* Variant: every block is built on the genesis hash.
new_block_on_genesis(last_index, now, price, last_hash) ==
    LET block == [index |-> last_index,
                  timestamp |-> now,
                  data |-> <<[asset |-> "BTC", price |-> price,
                              source |-> "CoinGecko", timestamp |-> now]>>,
                  previous_hash |-> DriverGenesis,
                  hash |-> DriverGenesis,
                  nonce |-> 0]
    IN  [block EXCEPT !.hash = calculate_hash(block)]

\* Block { index: last_index, timestamp: Utc::now(), data, previous_hash:
\* last_hash, nonce: 0 } with calculate_hash_with_nonce.
new_block(last_index, now, price, last_hash) ==
    LET block == [index |-> last_index,
                  timestamp |-> now,
                  data |-> <<[asset |-> "BTC", price |-> price,
                              source |-> "CoinGecko", timestamp |-> now]>>,
                  previous_hash |-> last_hash,
                  hash |-> DriverGenesis,
                  nonce |-> 0]
    IN  [block EXCEPT !.hash = calculate_hash(block)]

\* Variant: a pending attempt keeps the index it took.
keep_index_on_pending(d, res, saved) ==
    LET next == [d EXCEPT !.pc = "round", !.round = @ + 1, !.new_block = None]
        index == d.new_block.value.index
    IN  IF res.ok /\ res.value # None /\ saved.ok
          THEN [next EXCEPT !.last_hash = res.value.value.hash,
                            !.last_timestamp = Some(res.value.value.timestamp),
                            !.saved = Some(res.value.value.index),
                            !.attempt = Some([index |-> index, saved |-> TRUE])]
        ELSE IF res.ok /\ res.value = None
          THEN [next EXCEPT !.attempt = Some([index |-> index, saved |-> FALSE])]
        ELSE [next EXCEPT !.last_index = @ - 1,
                          !.attempt = Some([index |-> index, saved |-> FALSE])]

\* The match on run_consensus's result: a committed block is saved and becomes
\* the last block; a failed save, None and an error give the index back.
after_consensus(d, res, saved) ==
    LET next == [d EXCEPT !.pc = "round", !.round = @ + 1, !.new_block = None]
        index == d.new_block.value.index
    IN  IF res.ok /\ res.value # None /\ saved.ok
          THEN [next EXCEPT !.last_hash = res.value.value.hash,
                            !.last_timestamp = Some(res.value.value.timestamp),
                            !.saved = Some(res.value.value.index),
                            !.attempt = Some([index |-> index, saved |-> TRUE])]
        ELSE [next EXCEPT !.last_index = @ - 1,
                          !.attempt = Some([index |-> index, saved |-> FALSE])]

DriverReads == <<engine, pbftVars, committed, out, gossipVars, quorumlessVars,
                 paxosVars, bench, tasks, fnVars>>

\* A round that creates no block: the extract fails, the transform reports a
\* validation error, or the sample is a duplicate.
DriverSkip(cause) ==
    /\ engine = "driver"
    /\ driver.pc = "round"
    /\ driver.round < DriverRounds
    /\ cause = "deduplicated" => driver.last_timestamp # None
    /\ driver' = [driver EXCEPT !.round = @ + 1]
    /\ UNCHANGED <<DriverReads, blockchain>>

\* A round up to the call of run_consensus: last_index += 1 and the block.
DriverCreateBlock(price) ==
    /\ engine = "driver"
    /\ driver.pc = "round"
    /\ driver.round < DriverRounds
    /\ driver' = [driver EXCEPT
                    !.pc = "consensus",
                    !.last_index = @ + 1,
                    !.new_block = Some(new_block(driver.last_index + 1,
                                                 1234567890 + driver.round, price,
                                                 driver.last_hash))]
    /\ UNCHANGED <<DriverReads, blockchain>>

\* The rest of the round: run_consensus returned; a committed block goes to
\* save_block, which may also fail for a reason outside the table.
DriverConsensus(kind, disk_ok) ==
    /\ engine = "driver"
    /\ driver.pc = "consensus"
    /\ LET res == run_consensus(kind, driver.new_block.value)
           committed_block == res.ok /\ res.value # None
           saved == IF committed_block /\ disk_ok
                      THEN save_block(res.value.value)
                      ELSE [table |-> blockchain, result |-> Err("Sqlite")]
       IN  /\ blockchain' = saved.table
           /\ driver' = after_consensus(driver, res, saved.result)
    /\ UNCHANGED DriverReads

(***************************************************************************)
(* Initial states                                                          *)
(***************************************************************************)
InitPBFTState ==
    /\ pre_prepares = [r \in Replicas |-> [k \in Keys |-> <<>>]]
    /\ prepares = [r \in Replicas |-> [k \in Keys |-> <<>>]]
    /\ commits = [r \in Replicas |-> [k \in Keys |-> <<>>]]
    /\ committed_blocks = [r \in Replicas |-> <<>>]
    /\ pc = [r \in Replicas |-> "idle"]
    /\ blk = [r \in Replicas |-> NoBlock]
    /\ result = [r \in Replicas |-> NoResult]
    /\ attempts = [r \in Replicas |-> 0]
    /\ nvotes = [r \in Replicas |-> 0]
    /\ ret = FALSE

\* No benchmark and no driver loop is running.
NoBench == [pc |-> "none"]
NoDriver == [pc |-> "none"]
NoTasks == <<>>

InitIdle == bench = NoBench /\ driver = NoDriver /\ tasks = NoTasks

\* The engines after construction.
InitEngineState ==
    /\ committed = {}
    /\ out = NoResult
    /\ state = EmptyMap
    /\ proposing = {}
    /\ node_weights = [n \in WeightedNodes |-> 1]
    /\ votes = EmptyMap
    /\ votes_lock = "free"
    /\ acceptors = new(TotalNodes, quorums.q1_size, quorums.q2_size).acceptors
    /\ current_proposal = first_proposal(0)
    /\ call = [c \in Calls |-> IdleCall]

InitTraitState == blockchain = {} /\ InitEngineState

MainQuorums == [q1_size |-> ((TotalNodes + 1) \div 2) + 1, q2_size |-> TotalNodes \div 2]

NoInput == [total_nodes |-> 0]

InitPBFT ==
    /\ engine = "PBFT" /\ peers = "any"
    /\ InitPBFTState /\ quorums = MainQuorums /\ InitTraitState /\ InitIdle
    /\ input = NoInput /\ output = NoOutput

InitCluster ==
    /\ engine = "PBFT" /\ peers = "correct"
    /\ InitPBFTState /\ quorums = MainQuorums /\ InitTraitState /\ InitIdle
    /\ input = NoInput /\ output = NoOutput

\* Four PBFTManagers, one per node address, each as NodeState::new leaves it.
InitAllReplicas ==
    /\ engine = "PBFT" /\ peers = "all"
    /\ pre_prepares = [r \in Nodes |-> [k \in Keys |-> <<>>]]
    /\ prepares = [r \in Nodes |-> [k \in Keys |-> <<>>]]
    /\ commits = [r \in Nodes |-> [k \in Keys |-> <<>>]]
    /\ committed_blocks = [r \in Nodes |-> <<>>]
    /\ pc = [r \in Nodes |-> "idle"]
    /\ blk = [r \in Nodes |-> NoBlock]
    /\ result = [r \in Nodes |-> NoResult]
    /\ attempts = [r \in Nodes |-> 0]
    /\ nvotes = [r \in Nodes |-> 0]
    /\ ret = FALSE
    /\ quorums = MainQuorums /\ InitTraitState /\ InitIdle
    /\ input = NoInput /\ output = NoOutput

InitTrait(e) ==
    /\ engine = e /\ peers = "none"
    /\ InitPBFTState /\ quorums = MainQuorums /\ InitTraitState /\ InitIdle
    /\ input = NoInput /\ output = NoOutput

InitGossip == InitTrait("Gossip")

InitEventual == InitTrait("Eventual")

InitQuorumless == InitTrait("Quorumless")

InitFPaxos ==
    /\ engine = "FlexiblePaxos" /\ peers = "none"
    /\ InitPBFTState
    /\ \E p \in QuorumPairs :
          /\ Built(new(TotalNodes, p[1], p[2]))
          /\ quorums = [q1_size |-> p[1], q2_size |-> p[2]]
    /\ InitTraitState /\ InitIdle
    /\ input = NoInput /\ output = NoOutput

InitQuorum ==
    /\ engine = "quorum_size" /\ peers = "none"
    /\ InitPBFTState /\ quorums = MainQuorums /\ InitTraitState /\ InitIdle
    /\ input \in [total_nodes : 1 .. MaxNodes, votes : 0 .. MaxNodes]
    /\ output = NoOutput

InitNew ==
    /\ engine = "new" /\ peers = "none"
    /\ InitPBFTState /\ quorums = MainQuorums /\ InitTraitState /\ InitIdle
    /\ input \in [total_nodes : 1 .. MaxSize, q1_size : 0 .. MaxSize, q2_size : 0 .. MaxSize]
    /\ output = NoOutput

InitAdapter ==
    /\ engine = "adapter" /\ peers = "none"
    /\ InitPBFTState /\ quorums = MainQuorums /\ InitTraitState /\ InitIdle
    /\ input \in Algorithms
    /\ output = NoOutput

\* DatabaseManager::new and init on a new file: the table exists and is empty.
InitStore ==
    /\ engine = "store" /\ peers = "none"
    /\ InitPBFTState /\ quorums = MainQuorums /\ InitTraitState /\ InitIdle
    /\ input = NoInput
    /\ output = Called("init", 0, Ok(0))

(***************************************************************************)
(* Specifications                                                          *)
(***************************************************************************)
NextHandlers == \E r \in Replicas : \E msg \in AllMessages : Deliver(r, msg)

NextPropose ==
    \/ \E r \in Replicas : \E block \in Blocks : ProposeStart(r, block)
    \/ \E r \in Replicas : ProposePrePrepare(r)
    \/ \E r \in Replicas : ProposeBroadcastPrepare(r)
    \/ \E r \in Replicas : ProposePrepare(r)
    \/ \E r \in Replicas : ProposeBroadcastCommit(r)
    \/ \E r \in Replicas : ProposeCommit(r)
    \/ \E r \in Replicas : PBFTHandleMessage(r)

NextPBFT == NextHandlers \/ NextPropose

NextGossip ==
    \/ \E block \in TraitBlocks : GossipProposeStart(block)
    \/ \E block \in TraitBlocks : GossipProposeCommit(block)
    \/ \E message \in TraitMessages : GossipHandleMessage(message)

NextEventual ==
    \/ \E block \in TraitBlocks : EventualPropose(block)
    \/ \E message \in TraitMessages : EventualHandleMessage(message)

NextQuorumless ==
    \/ \E n \in {0, 1} : \E w \in Weights : set_node_weight(n, w)
    \/ \E block \in TraitBlocks : QuorumlessPropose(block)
    \/ \E message \in TraitMessages : QuorumlessHandleMessage(message)

NextFPaxos ==
    \/ \E c \in Calls : \E block \in PaxosBlocks : PaxosPropose(c, block)
    \/ \E c \in Calls : PaxosPrepare(c)
    \/ \E c \in Calls : PaxosAccept(c)
    \/ \E c \in Calls : PaxosReturn(c)
    \/ \E message \in {ConsensusMessage(1, "h1", 1)} : PaxosHandleMessage(message)

\* One PBFTManager sent PrePrepares by whoever posts them.
InitPrePrepares ==
    /\ engine = "PBFT" /\ peers = "any"
    /\ InitPBFTState /\ quorums = MainQuorums /\ InitTraitState /\ InitIdle
    /\ input = <<>> /\ output = NoOutput

NextPrePrepares == \E r \in Replicas : \E msg \in AllMessages : ReceivePrePrepare(r, msg)

SpecPrePrepares == InitPrePrepares /\ [][NextPrePrepares]_vars

\* The PBFT deployment with the replicas running main's run_pbft_consensus.
InitMainCluster ==
    /\ engine = "PBFT" /\ peers = "correct"
    /\ InitPBFTState /\ quorums = MainQuorums /\ InitTraitState
    /\ bench = NoBench /\ driver = [pc |-> "run_pbft_consensus"] /\ tasks = NoTasks
    /\ input = NoInput /\ output = NoOutput

NextMainCluster ==
    \/ NextHandlers
    \/ \E r \in Replicas : \E block \in Blocks : ProposeStart(r, block)
    \/ \E r \in Replicas : ProposePrePrepare(r)
    \/ \E r \in Replicas : ProposeBroadcastPrepare(r)
    \/ \E r \in Replicas : RunPbftPrepare(r)
    \/ \E r \in Replicas : ProposeBroadcastCommit(r)
    \/ \E r \in Replicas : ProposeCommit(r)

SpecMainCluster == InitMainCluster /\ [][NextMainCluster]_vars

\* One PBFTManager driven through its handlers.
SpecPBFT == InitPBFT /\ [][NextHandlers]_vars

\* The PBFT deployment: replicas proposing and exchanging messages.
SpecCluster == InitCluster /\ [][NextPBFT]_vars

NextAllReplicas ==
    \/ \E r \in Nodes : \E block \in Blocks : ProposeStart(r, block)
    \/ \E r \in Nodes : ProposePrePrepare(r)
    \/ \E r \in Nodes : ProposeBroadcastPrepare(r)
    \/ \E r \in Nodes : ProposePrepare(r)
    \/ \E r \in Nodes : ProposeBroadcastCommit(r)
    \/ \E r \in Nodes : ProposeCommit(r)

\* Four correct replicas, each running propose, every POST delivered.
SpecAllReplicas == InitAllReplicas /\ [][NextAllReplicas]_vars

SpecFPaxos == InitFPaxos /\ [][NextFPaxos]_vars

SpecQuorum == InitQuorum /\ [][QuorumCall]_vars

SpecNew == InitNew /\ [][NewCall]_vars

SpecAdapter == InitAdapter /\ [][AdapterCall]_vars

NextStore ==
    \/ \E block \in StoreBlocks : SaveBlock(block)
    \/ \E blocks \in Batches : SaveBlocks(blocks)
    \/ \E index \in 1 .. MaxIndex : GetBlockByIndex(index)
    \/ \E block \in StoreBlocks : GetBlockByHash(block.hash)
    \/ GetBlockCount
    \/ VerifyChain
    \/ \E index \in 1 .. MaxIndex : DeleteBlock(index)

SpecStore == InitStore /\ [][NextStore]_vars

\* One strategy benchmarked for up to MaxRounds runs over one block sequence.
InitBench ==
    /\ engine = "bench" /\ peers = "none"
    /\ InitPBFTState /\ quorums = MainQuorums /\ InitTraitState
    /\ driver = NoDriver /\ tasks = NoTasks
    /\ \E strategy \in Strategies, blocks \in BenchSequences, minable \in SUBSET Hashes :
          /\ strategy # "Simplified PoW" => minable = {}
          /\ bench = [f \in DOMAIN BenchLocals \cup
                                {"strategy", "blocks", "minable", "inst", "reused",
                                 "round_metrics"} |->
                        CASE f = "strategy" -> strategy
                          [] f = "blocks" -> blocks
                          [] f = "minable" -> minable
                          [] f = "inst" -> NewInstance
                          [] f = "reused" -> TRUE
                          [] f = "round_metrics" -> <<>>
                          [] OTHER -> BenchLocals[f]]
    /\ input = NoInput /\ output = NoOutput

NextBench ==
    \/ \E elapsed \in Elapsed : BenchIterate(elapsed)
    \/ BenchBlocked
    \/ BenchReturn
    \/ \E fresh \in BOOLEAN : BenchNextRound(fresh)

SpecBench == InitBench /\ [][NextBench]_vars

\* The aggregation functions on the rounds of one strategy.
InitAggregate ==
    /\ engine = "aggregate" /\ peers = "none"
    /\ InitPBFTState /\ quorums = MainQuorums /\ InitTraitState /\ InitIdle
    /\ \E rounds \in Rounds(MaxRounds) :
          input = [round_metrics |-> [k \in DOMAIN rounds |-> rounds[k].metrics],
                   round_runtimes |-> [k \in DOMAIN rounds |-> rounds[k].runtime]]
    /\ output = NoOutput

SpecAggregate == InitAggregate /\ [][AggregateCall]_vars

\* A broadcast from a node of the four-node deployment: its port, and what each
\* POST ends in.
InitNetwork ==
    /\ engine = "network" /\ peers = "none"
    /\ InitPBFTState /\ quorums = MainQuorums /\ InitTraitState /\ InitIdle
    /\ \E current_node_port \in NodePorts,
          answers \in [Range(ConfiguredAddresses) -> SendResults] :
          input = [node_addresses |-> ConfiguredAddresses,
                   current_node_port |-> current_node_port,
                   answers |-> answers]
    /\ output = NoOutput

SpecNetwork == InitNetwork /\ [][BroadcastCall]_vars

\* main before the round loop: the database is new or holds the block of an
\* earlier run, and get_latest_block answers or fails.
InitDriver ==
    /\ engine = "driver" /\ peers = "none"
    /\ InitPBFTState /\ quorums = MainQuorums
    /\ InitEngineState
    /\ bench = NoBench /\ tasks = NoTasks
    /\ blockchain \in {{}, {to_row(TestChain(1))}}
    /\ \E latest \in {get_latest_block, Err("Sqlite")} : driver = DriverStart(latest)
    /\ input = NoInput /\ output = NoOutput

NextDriver ==
    \/ \E cause \in {"extract", "validation", "deduplicated"} : DriverSkip(cause)
    \/ \E price \in Prices : DriverCreateBlock(price)
    \/ \E kind \in {"Some", "None", "Err"}, disk_ok \in BOOLEAN :
          DriverConsensus(kind, disk_ok)

SpecDriver == InitDriver /\ [][NextDriver]_vars

\* The engines that act on the messages they are handed.
InitDelivery ==
    \/ InitPBFT
    \/ InitGossip
    \/ InitQuorumless

NextDelivery ==
    \/ NextHandlers
    \/ NextGossip
    \/ NextQuorumless

SpecDelivery == InitDelivery /\ [][NextDelivery]_vars

\* The engines whose propose waits and then commits: Gossip and Eventual.
InitTimed ==
    \/ InitGossip
    \/ InitEventual

NextTimed ==
    \/ NextGossip
    \/ NextEventual

SpecTimed == InitTimed /\ [][NextTimed]_vars

\* Every engine: the run starts by fixing one of them.
Init ==
    \/ InitPBFT
    \/ InitCluster
    \/ InitGossip
    \/ InitEventual
    \/ InitQuorumless
    \/ InitFPaxos

Next ==
    \/ NextPBFT
    \/ NextGossip
    \/ NextEventual
    \/ NextQuorumless
    \/ NextFPaxos

Spec == Init /\ [][Next]_vars

(***************************************************************************)
(* The engines' reader-writer locks, call by call                          *)
(*                                                                         *)
(* The driver task runs propose; the transport server's thread (or any     *)
(* other holder of the Arc) runs handle_message, on_message and            *)
(* is_committed at the same time.  A step of a call runs from one lock     *)
(* request or await to the next, so a call rests only where it can wait.   *)
(***************************************************************************)
TaskIds == {"driver", "server"}

\* The positions that are an `.await`: tokio::time::sleep and broadcast_message.
Awaits == {"sleep", "broadcast_pre_prepare", "broadcast_prepare", "broadcast_commit"}

\* RwLock::write is granted when nobody holds the lock, the caller included;
\* RwLock::read when nobody holds it for writing.
can_write(lock) == \A u \in TaskIds : \A g \in tasks[u].held : g[1] # lock
can_read(lock) == \A u \in TaskIds : <<lock, "write">> \notin tasks[u].held

\* Variant: the guard is bound in the function body and lives on.
guard_kept(held, guard) == held \cup {guard}

\* A guard taken inside `{ ... }`, or inside a callee, or bound in a function
\* that returns without awaiting: dropped where that scope ends.
scoped(held, guard) == (held \cup {guard}) \ {guard}

\* The task's record after a step that took `guard` and went on to `next`.
After(t, next, guard) == [tasks[t] EXCEPT !.pc = next, !.held = scoped(@, guard)]

\* The replica the PBFT run is about: node 1 is the primary of sequence 1.
TaskNode == tasks["driver"].node

\* ---- Gossip -------------------------------------------------------------
\* propose: `{ let mut state = self.state.write(); state.insert(..) }`, then
\* the sleep.
TaskGossipPropose(block) ==
    /\ engine = "Gossip" /\ tasks # NoTasks
    /\ tasks["driver"].pc = "idle"
    /\ can_write("state")
    /\ state' = MapInsert(state, block.index, {})
    /\ tasks' = [tasks EXCEPT !["driver"] =
                    [After("driver", "sleep", <<"state", "write">>) EXCEPT !.block = block]]
    /\ UNCHANGED <<engine, blockchain, bench, driver, pbftVars, out, committed, proposing,
                   quorumlessVars, paxosVars, fnVars>>

\* propose after the sleep: `{ self.committed.write().insert(..) }`, return.
TaskGossipCommit ==
    /\ engine = "Gossip" /\ tasks # NoTasks
    /\ tasks["driver"].pc = "sleep"
    /\ can_write("committed")
    /\ committed' = committed \cup {tasks["driver"].block.index}
    /\ out' = Committed(tasks["driver"].block)
    /\ tasks' = [tasks EXCEPT !["driver"] =
                    [After("driver", "idle", <<"committed", "write">>) EXCEPT !.block = NoBlock]]
    /\ UNCHANGED <<engine, blockchain, bench, driver, pbftVars, gossipVars,
                   quorumlessVars, paxosVars, fnVars>>

\* handle_message: `let mut state = self.state.write()` lives to the end of the
\* function; below the threshold it returns, else it asks for committed.write().
TaskGossipHandle(message) ==
    LET entries == MapOrInsert(state, message.block_index, {})
        received_from == entries[message.block_index] \cup {message.node_id}
        enough == Cardinality(received_from) >= Fanout
    IN  /\ engine = "Gossip" /\ tasks # NoTasks
        /\ tasks["server"].pc = "idle"
        /\ can_write("state")
        /\ state' = [entries EXCEPT ![message.block_index] = received_from]
        /\ tasks' = [tasks EXCEPT !["server"] =
                        IF enough
                          THEN [@ EXCEPT !.pc = "lock_committed",
                                         !.held = @ \cup {<<"state", "write">>},
                                         !.msg = message]
                          ELSE After("server", "idle", <<"state", "write">>)]
        /\ out' = IF enough THEN out ELSE Pending
        /\ UNCHANGED <<engine, blockchain, bench, driver, pbftVars, committed, proposing,
                       quorumlessVars, paxosVars, fnVars>>

\* handle_message at the threshold: committed.write(), insert, return; both
\* guards are dropped.
TaskGossipHandleCommit ==
    /\ engine = "Gossip" /\ tasks # NoTasks
    /\ tasks["server"].pc = "lock_committed"
    /\ can_write("committed")
    /\ committed' = committed \cup {tasks["server"].msg.block_index}
    /\ out' = Pending
    /\ tasks' = [tasks EXCEPT !["server"] =
                    [pc |-> "idle",
                     held |-> scoped(tasks["server"].held \ {<<"state", "write">>},
                                     <<"committed", "write">>),
                     block |-> NoBlock, msg |-> NoBlock, node |-> tasks["server"].node]]
    /\ UNCHANGED <<engine, blockchain, bench, driver, pbftVars, gossipVars,
                   quorumlessVars, paxosVars, fnVars>>

\* ---- Eventual -----------------------------------------------------------
\* propose starts with the sleep.
TaskEventualPropose(block) ==
    /\ engine = "Eventual" /\ tasks # NoTasks
    /\ tasks["driver"].pc = "idle"
    /\ tasks' = [tasks EXCEPT !["driver"] = [@ EXCEPT !.pc = "sleep", !.block = block]]
    /\ UNCHANGED <<engine, blockchain, bench, driver, pbftVars, out, committed, gossipVars,
                   quorumlessVars, paxosVars, fnVars>>

\* propose after the sleep: committed.write(), insert, return.
TaskEventualCommit ==
    /\ engine = "Eventual" /\ tasks # NoTasks
    /\ tasks["driver"].pc = "sleep"
    /\ can_write("committed")
    /\ committed' = committed \cup {tasks["driver"].block.index}
    /\ out' = Committed(tasks["driver"].block)
    /\ tasks' = [tasks EXCEPT !["driver"] =
                    [After("driver", "idle", <<"committed", "write">>) EXCEPT !.block = NoBlock]]
    /\ UNCHANGED <<engine, blockchain, bench, driver, pbftVars, gossipVars,
                   quorumlessVars, paxosVars, fnVars>>

\* is_committed of Gossip and Eventual: `self.committed.read().contains(..)`.
TaskIsCommitted(block_index) ==
    /\ engine \in {"Gossip", "Eventual"} /\ tasks # NoTasks
    /\ tasks["server"].pc = "idle"
    /\ can_read("committed")
    /\ output' = Called("is_committed", block_index, engine_is_committed(block_index))
    /\ tasks' = [tasks EXCEPT !["server"] = After("server", "idle", <<"committed", "read">>)]
    /\ UNCHANGED <<engine, blockchain, bench, driver, pbftVars, out, committed, gossipVars,
                   quorumlessVars, paxosVars, input>>

\* ---- PBFT ----------------------------------------------------------------
\* The first lock section of a handler: the sender is pushed unless contained.
record_sender(r, msg) ==
    LET key == <<msg.view, msg.sequence>> IN
    CASE msg.msg_type = "PrePrepare" ->
           /\ pre_prepares' = [pre_prepares EXCEPT ![r][key] = RecordVote(@, msg.node_id)]
           /\ UNCHANGED <<prepares, commits, committed_blocks, ret>>
      [] msg.msg_type = "Prepare" ->
           /\ prepares' = [prepares EXCEPT ![r][key] = RecordVote(@, msg.node_id)]
           /\ UNCHANGED <<pre_prepares, commits, committed_blocks, ret>>
      [] msg.msg_type = "Commit" ->
           /\ commits' = [commits EXCEPT ![r][key] = RecordVote(@, msg.node_id)]
           /\ UNCHANGED <<pre_prepares, prepares, committed_blocks, ret>>

\* The second lock section: has_quorum of the votes found there, and for a
\* Commit the push onto committed_blocks.
check_quorum(r, msg) ==
    LET quorum == has_quorum(VotesOf(r, msg), TotalNodes) IN
    /\ ret' = quorum
    /\ committed_blocks' =
          IF msg.msg_type = "Commit"
            THEN [committed_blocks EXCEPT ![r] = RecordCommitted(@, msg.sequence, quorum)]
            ELSE committed_blocks
    /\ UNCHANGED <<pre_prepares, prepares, commits>>

\* `self.state.read()` for PrePrepare and Prepare, `self.state.write()` for Commit.
check_mode(msg) == IF msg.msg_type = "Commit" THEN "write" ELSE "read"

can_check(msg) == IF check_mode(msg) = "write" THEN can_write("state") ELSE can_read("state")

OwnMessage(t) ==
    PBFTMessage(t, NodeView, tasks["driver"].block.index, tasks["driver"].block.hash,
                TaskNode)

\* propose is entered: is_primary and create_pre_prepare read the state, then
\* the PrePrepare is broadcast; a backup goes to the sleep.
TaskPbftPropose(block) ==
    /\ engine = "PBFT" /\ tasks # NoTasks
    /\ tasks["driver"].pc = "idle"
    /\ attempts[TaskNode] < MaxAttempts
    /\ can_read("state")
    /\ attempts' = [attempts EXCEPT ![TaskNode] = @ + 1]
    /\ tasks' = [tasks EXCEPT !["driver"] =
                    [After("driver",
                           IF is_primary(TaskNode, block.index)
                             THEN "broadcast_pre_prepare" ELSE "sleep",
                           <<"state", "read">>) EXCEPT !.block = block]]
    /\ UNCHANGED <<nonPBFTButTasks, engine, peers, voteVars, pc, blk, result, nvotes>>

\* The broadcast or the sleep is over: the first section of the own handler
\* call (after the sleep, create_prepare and the Prepare broadcast come first).
TaskPbftAwaitDone ==
    LET at == tasks["driver"].pc IN
    /\ engine = "PBFT" /\ tasks # NoTasks
    /\ at \in Awaits
    /\ IF at = "sleep"
         THEN /\ can_read("state")
              /\ tasks' = [tasks EXCEPT !["driver"] =
                              After("driver", "broadcast_prepare", <<"state", "read">>)]
              /\ UNCHANGED voteVars
         ELSE LET t == CASE at = "broadcast_pre_prepare" -> "PrePrepare"
                         [] at = "broadcast_prepare" -> "Prepare"
                         [] at = "broadcast_commit" -> "Commit"
              IN  /\ can_write("state")
                  /\ record_sender(TaskNode, OwnMessage(t))
                  /\ tasks' = [tasks EXCEPT !["driver"] =
                                  [After("driver", "check", <<"state", "write">>)
                                      EXCEPT !.msg = OwnMessage(t)]]
    /\ UNCHANGED <<nonPBFTButTasks, engine, peers, pc, blk, result, attempts, nvotes>>

\* The second section of the own handler call and what propose does with the
\* answer: sleep, create_commit and broadcast, or return.
TaskPbftCheck ==
    LET msg == tasks["driver"].msg
        t == msg.msg_type
        next == CASE t = "PrePrepare" -> "sleep"
                  [] t = "Prepare" -> IF ret' THEN "broadcast_commit" ELSE "idle"
                  [] t = "Commit" -> "idle"
    IN  /\ engine = "PBFT" /\ tasks # NoTasks
        /\ tasks["driver"].pc = "check"
        /\ can_check(msg)
        /\ check_quorum(TaskNode, msg)
        /\ tasks' = [tasks EXCEPT !["driver"] =
                        [After("driver", next, <<"state", check_mode(msg)>>)
                            EXCEPT !.msg = NoBlock,
                                   !.block = IF next = "idle" THEN NoBlock ELSE @]]
        /\ result' = IF next # "idle" THEN result
                     ELSE [result EXCEPT ![TaskNode] =
                              IF t = "Commit" /\ ret'
                                THEN Committed(tasks["driver"].block) ELSE Pending]
        /\ UNCHANGED <<nonPBFTButTasks, engine, peers, pc, blk, attempts, nvotes>>

\* What a peer can POST: a message of any type of the node's view from another
\* node (the handlers do not read block_hash, so one hash is sent).
PeerMessages ==
    {m \in AllMessages : m.view = NodeView /\ m.block_hash = "h1" /\ m.node_id # TaskNode}

\* POST /message on the server thread: the first section of the handler.
TaskOnMessage(msg) ==
    /\ engine = "PBFT" /\ tasks # NoTasks
    /\ tasks["server"].pc = "idle"
    /\ nvotes[TaskNode] < MaxVotes
    /\ can_write("state")
    /\ record_sender(TaskNode, msg)
    /\ nvotes' = [nvotes EXCEPT ![TaskNode] = @ + 1]
    /\ tasks' = [tasks EXCEPT !["server"] =
                    [After("server", "check", <<"state", "write">>) EXCEPT !.msg = msg]]
    /\ UNCHANGED <<nonPBFTButTasks, engine, peers, pc, blk, result, attempts>>

\* ... and its second section; the answer goes back to the sender.
TaskOnMessageCheck ==
    LET msg == tasks["server"].msg IN
    /\ engine = "PBFT" /\ tasks # NoTasks
    /\ tasks["server"].pc = "check"
    /\ can_check(msg)
    /\ check_quorum(TaskNode, msg)
    /\ tasks' = [tasks EXCEPT !["server"] =
                    [After("server", "idle", <<"state", check_mode(msg)>>)
                        EXCEPT !.msg = NoBlock]]
    /\ UNCHANGED <<nonPBFTButTasks, engine, peers, pc, blk, result, attempts, nvotes>>

\* PBFTManager::is_committed on the server thread: `self.state.read()`.
TaskPbftIsCommitted(sequence) ==
    /\ engine = "PBFT" /\ tasks # NoTasks
    /\ tasks["server"].pc = "idle"
    /\ can_read("state")
    /\ output' = Called("is_committed", sequence, is_committed(TaskNode, sequence))
    /\ tasks' = [tasks EXCEPT !["server"] = After("server", "idle", <<"state", "read">>)]
    /\ UNCHANGED <<engine, pbftVars, committed, out, gossipVars, quorumlessVars, paxosVars,
                   blockchain, bench, driver, input>>

InitTasks ==
    /\ engine \in {"Gossip", "Eventual", "PBFT"} /\ peers = "any"
    /\ InitPBFTState /\ quorums = MainQuorums /\ InitTraitState
    /\ bench = NoBench /\ driver = NoDriver
    /\ \E node \in Replicas :
          tasks = [t \in TaskIds |->
                      [pc |-> "idle", held |-> {}, block |-> NoBlock, msg |-> NoBlock,
                       node |-> node]]
    /\ input = NoInput /\ output = NoOutput

\* The calls made on the trait engines: proposals and messages for one index.
TaskBlocks == {b \in TraitBlocks : b.index = 1}
TaskMessages == {m \in TraitMessages : m.block_index = 1 /\ m.block_hash = "h1"}

NextTasks ==
    \/ \E block \in TaskBlocks : TaskGossipPropose(block)
    \/ TaskGossipCommit
    \/ \E message \in TaskMessages : TaskGossipHandle(message)
    \/ TaskGossipHandleCommit
    \/ \E block \in TaskBlocks : TaskEventualPropose(block)
    \/ TaskEventualCommit
    \/ \E block_index \in {1} : TaskIsCommitted(block_index)
    \/ \E block \in BuiltBlocks(TaskNode) : TaskPbftPropose(block)
    \/ TaskPbftAwaitDone
    \/ TaskPbftCheck
    \/ \E msg \in PeerMessages : TaskOnMessage(msg)
    \/ TaskOnMessageCheck
    \/ \E sequence \in Sequences : TaskPbftIsCommitted(sequence)

SpecTasks == InitTasks /\ [][NextTasks]_vars

\* ---- PBFT, the commit phase alone ------------------------------------------
\* The replica where propose has found its Prepare quorum (its own Prepare
\* after those of two peers) and is about to broadcast its Commit; nvotes
\* counts the POSTs the server thread handles from here on.
InitCommits ==
    /\ engine = "PBFT" /\ peers = "any"
    /\ quorums = MainQuorums /\ InitTraitState
    /\ bench = NoBench /\ driver = NoDriver
    /\ \E node \in Replicas : \E block \in BuiltBlocks(node) :
       \E first, second \in Nodes \ {node} :
          LET key == <<NodeView, block.index>> IN
          /\ first # second
          /\ tasks = [t \in TaskIds |->
                         [pc |-> IF t = "driver" THEN "broadcast_commit" ELSE "idle",
                          held |-> {},
                          block |-> IF t = "driver" THEN block ELSE NoBlock,
                          msg |-> NoBlock, node |-> node]]
          /\ pre_prepares = [r \in Replicas |-> [k \in Keys |->
                                IF r = node /\ k = key /\ is_primary(node, block.index)
                                  THEN <<node>> ELSE <<>>]]
          /\ prepares = [r \in Replicas |-> [k \in Keys |->
                            IF r = node /\ k = key THEN <<first, second, node>> ELSE <<>>]]
          /\ attempts = [r \in Replicas |-> IF r = node THEN 1 ELSE 0]
    /\ commits = [r \in Replicas |-> [k \in Keys |-> <<>>]]
    /\ committed_blocks = [r \in Replicas |-> <<>>]
    /\ pc = [r \in Replicas |-> "idle"]
    /\ blk = [r \in Replicas |-> NoBlock]
    /\ result = [r \in Replicas |-> NoResult]
    /\ nvotes = [r \in Replicas |-> 0]
    /\ ret = TRUE
    /\ input = NoInput /\ output = NoOutput

NextCommits ==
    \/ TaskPbftAwaitDone
    \/ TaskPbftCheck
    \/ \E msg \in {m \in PeerMessages : m.msg_type = "Commit"} : TaskOnMessage(msg)
    \/ TaskOnMessageCheck
    \/ \E sequence \in Sequences : TaskPbftIsCommitted(sequence)

SpecCommits == InitCommits /\ [][NextCommits]_vars

(***************************************************************************)
(* Flexible Paxos proposal numbers, one instance per replica              *)
(***************************************************************************)
\* Cap on the proposal numbers handed out in one run.
MaxIds == 3

\* A propose call on the instance of replica node_id takes its number; calls
\* on one instance take the write lock one after the other.
NextProposalCall(node_id) ==
    /\ engine = "next_proposal"
    /\ node_id \in DOMAIN current_proposal
    /\ Len(output) < MaxIds
    /\ current_proposal' =
          [current_proposal EXCEPT ![node_id] = next_proposal(@, input.total_nodes)]
    /\ output' = Append(output, [node_id |-> node_id, proposal |-> current_proposal'[node_id]])
    /\ UNCHANGED <<engine, blockchain, bench, driver, tasks, pbftVars, out, committed, gossipVars,
                   quorumlessVars, quorums, acceptors, call, input>>

InitProposals ==
    /\ engine = "next_proposal" /\ peers = "none"
    /\ InitPBFTState /\ quorums = MainQuorums /\ InitIdle
    /\ blockchain = {} /\ committed = {} /\ out = NoResult
    /\ state = EmptyMap /\ proposing = {}
    /\ node_weights = [n \in WeightedNodes |-> 1] /\ votes = EmptyMap /\ votes_lock = "free"
    /\ acceptors = new(TotalNodes, quorums.q1_size, quorums.q2_size).acceptors
    /\ call = [c \in Calls |-> IdleCall]
    /\ \E total_nodes \in 1 .. TotalNodes :
          /\ input = [total_nodes |-> total_nodes]
          /\ current_proposal = [node_id \in 0 .. (total_nodes - 1) |-> first_proposal(node_id)]
    /\ output = <<>>

SpecProposals == InitProposals /\ [][\E node_id \in Nodes : NextProposalCall(node_id)]_vars

(***************************************************************************)
(* Properties                                                              *)
(***************************************************************************)
Q == quorum_size(TotalNodes)

Distinct(senders) == Cardinality(Range(senders))

\* C1: PBFT agreement.  Whenever propose has returned Committed on two correct
\* replicas for the same sequence, and both report is_committed for it, the
\* blocks they returned carry the same hash.
C1_Agreement ==
    \A r1 \in Replicas : \A r2 \in Replicas :
        ( /\ result[r1].kind = "Committed"
          /\ result[r2].kind = "Committed"
          /\ result[r1].block.index = result[r2].block.index
          /\ is_committed(r1, result[r1].block.index)
          /\ is_committed(r2, result[r2].block.index) )
        => result[r1].block.hash = result[r2].block.hash

\* C7: PBFT commit rule.  A delivered Commit is recorded; handle_commit returns
\* true, and the sequence is committed afterwards, exactly when the commit set
\* of (view, sequence) then holds at least Q distinct senders; with fewer it
\* returns false and the committed Vec is left as it was.  A committed
\* sequence has a view whose commit set holds Q distinct senders.
C7_CommitStep ==
    engine = "PBFT" => \A r \in Replicas : \A msg \in AllMessages :
        (msg.msg_type = "Commit" /\ Deliver(r, msg)) =>
            LET after == commits'[r][<<msg.view, msg.sequence>>]
            IN  /\ msg.node_id \in Range(after)
                /\ ret' = (Distinct(after) >= Q)
                /\ (Distinct(after) >= Q) =>
                      msg.sequence \in Range(committed_blocks'[r])
                /\ (Distinct(after) < Q) =>
                      committed_blocks'[r] = committed_blocks[r]

C7_CommittedHasQuorum ==
    \A r \in Replicas : \A s \in Sequences :
        is_committed(r, s) => \E v \in Views : Distinct(commits[r][<<v, s>>]) >= Q

C7_CommitRule == [][C7_CommitStep /\ C7_CommittedHasQuorum']_vars

C7_Witness ==
    \E r \in Replicas : \E k \in Keys :
        /\ engine = "PBFT"
        /\ Distinct(commits[r][k]) = Q
        /\ is_committed(r, k[2])
        /\ ret

\* C8: PBFT vote sets only grow.  In every step, on every replica and for every
\* key, each of pre_prepares, prepares and commits keeps the senders it had, in
\* the order it had them.
Extends(old, now) ==
    /\ Len(old) <= Len(now)
    /\ \A i \in 1 .. Len(old) : now[i] = old[i]

C8_VotesGrow ==
    [][\A r \in Replicas : \A k \in Keys :
          /\ Extends(pre_prepares[r][k], pre_prepares'[r][k])
          /\ Extends(prepares[r][k], prepares'[r][k])
          /\ Extends(commits[r][k], commits'[r][k])]_vars

C8_Witness ==
    \E r \in Replicas : \E k \in Keys :
        /\ peers = "correct"
        /\ result[r] # NoResult
        /\ Len(pre_prepares[r][k]) >= 1
        /\ Len(prepares[r][k]) >= 2
        /\ Len(commits[r][k]) >= 2

\* C10: PBFT failure outcome.  When propose has recorded its own Prepare and
\* the prepare set of (view, block.index) holds fewer than Q distinct senders,
\* propose returns Pending and the committed Vecs are left as they were.
C10_PendingWithoutQuorum ==
    [][\A r \in Replicas :
          ( /\ ProposePrepare(r)
            /\ Distinct(prepares'[r][<<NodeView, blk[r].index>>]) < Q )
          => /\ pc'[r] = "idle"
             /\ result'[r] = Pending
             /\ committed_blocks' = committed_blocks]_vars

C10_Witness ==
    \E r \in Replicas : \E s \in Sequences :
        /\ peers = "correct"
        /\ pc[r] = "idle"
        /\ result[r] = Pending
        /\ r \in Range(prepares[r][<<NodeView, s>>])
        /\ Distinct(prepares[r][<<NodeView, s>>]) < Q
        /\ committed_blocks[r] = <<>>

\* C2: Flexible-Paxos agreement.  Any two propose calls on one instance that
\* returned Committed returned the same block, however their steps over the
\* acceptors were interleaved.
C2_Agreement ==
    \A c1 \in Calls : \A c2 \in Calls :
        (call[c1].result.kind = "Committed" /\ call[c2].result.kind = "Committed")
        => call[c1].result.block = call[c2].result.block

\* Two calls proposed blocks of different indexes and both returned Committed.
C2_Witness ==
    /\ engine = "FlexiblePaxos"
    /\ committed = Indexes
    /\ \E c1 \in Calls : \E c2 \in Calls :
          /\ c1 # c2
          /\ call[c1].result.kind = "Committed"
          /\ call[c2].result.kind = "Committed"

\* C3: commit is permanent.  In every engine and in every step, a sequence for
\* which is_committed returned true before the step has is_committed true
\* after it.
C3_CommitPermanent ==
    [][ /\ \A r \in Replicas : \A s \in Sequences :
              is_committed(r, s) => s \in Range(committed_blocks'[r])
        /\ \A i \in Indexes :
              engine_is_committed(i) => i \in committed' ]_vars

\* Both indexes are committed: the second commit came after the first.
C3_Witness ==
    /\ engine \in {"Gossip", "Eventual", "FlexiblePaxos"}
    /\ \A i \in Indexes : engine_is_committed(i)

\* C4 as stated: FlexiblePaxos::new produces an instance exactly when
\* Q1 + Q2 > N and Q1 >= ceil((N + 1) / 2), and panics otherwise.
CeilHalf(n) == CHOOSE h \in 0 .. n : 2 * h >= n /\ 2 * (h - 1) < n

C5_AcceptorStep(a) ==
    /\ acceptors[a].promised # None =>
          /\ acceptors'[a].promised # None
          /\ acceptors'[a].promised.value >= acceptors[a].promised.value
    /\ (acceptors'[a].accepted # acceptors[a].accepted /\ acceptors[a].promised # None) =>
          acceptors'[a].accepted.value.proposal >= acceptors[a].promised.value

C5_AcceptedBelowPromised(a) ==
    acceptors[a].accepted # None =>
        /\ acceptors[a].promised # None
        /\ acceptors[a].promised.value >= acceptors[a].accepted.value.proposal

C5_AcceptorInvariant ==
    [][\A a \in Nodes : C5_AcceptorStep(a) /\ C5_AcceptedBelowPromised(a)']_vars

\* An acceptor turned an AcceptRequest down: it holds a value accepted below
\* its promise and a call went without its phase-2 quorum.
C5_Witness ==
    /\ engine = "FlexiblePaxos"
    /\ \E a \in Nodes :
          /\ acceptors[a].accepted # None
          /\ acceptors[a].promised.value > acceptors[a].accepted.value.proposal
    /\ \E c \in Calls : call[c].result = Pending

\* C6: PBFT quorum size.  quorum_size(N) is 2f + 1 for the largest f with
\* 3f + 1 <= N (so 3 for N = 4, 5 for N = 7, 7 for N = 10), and has_quorum is
\* true exactly when the number of recorded votes is at least quorum_size(N).
C6_QuorumSize ==
    output.called =>
        /\ \E f \in 0 .. input.total_nodes :
              /\ (3 * f) + 1 <= input.total_nodes
              /\ input.total_nodes <= (3 * f) + 3
              /\ output.quorum_size = (2 * f) + 1
        /\ input.total_nodes = 4 => output.quorum_size = 3
        /\ input.total_nodes = 7 => output.quorum_size = 5
        /\ input.total_nodes = 10 => output.quorum_size = 7
        /\ output.has_quorum <=> (input.votes >= output.quorum_size)

C6_Witness ==
    /\ output.called
    /\ input = [total_nodes |-> 10, votes |-> 7]
    /\ output.quorum_size = 7
    /\ output.has_quorum

\* C9: duplicate delivery is idempotent.  A PBFT message whose sender is
\* already recorded for its key leaves the vote maps and the committed Vecs as
\* they were and returns the quorum verdict of the unchanged set; a gossip or
\* quorum-less message whose sender is already recorded for its index leaves
\* the seer sets, the vote sets and the committed set as they were.
C9_PBFT ==
    engine = "PBFT" => \A r \in Replicas : \A msg \in AllMessages :
        (msg.node_id \in Range(VotesOf(r, msg)) /\ Deliver(r, msg)) =>
            /\ UNCHANGED <<pre_prepares, prepares, commits, committed_blocks>>
            /\ ret' = (Distinct(VotesOf(r, msg)) >= Q)

C9_Gossip ==
    engine = "Gossip" => \A message \in TraitMessages :
        ( /\ message.block_index \in DOMAIN state
          /\ message.node_id \in state[message.block_index]
          /\ GossipHandleMessage(message) )
        => UNCHANGED <<state, committed>>

C9_Quorumless ==
    engine = "Quorumless" => \A message \in TraitMessages :
        ( /\ message.block_index \in DOMAIN votes
          /\ message.node_id \in votes[message.block_index]
          /\ QuorumlessHandleMessage(message) )
        => UNCHANGED <<votes, committed>>

C9_Idempotent == [][C9_PBFT /\ C9_Gossip /\ C9_Quorumless]_vars

\* A quorate, committed commit set on a replica that takes duplicates only.
C9_Witness ==
    /\ engine = "PBFT"
    /\ \E r \in Replicas : \E k \in Keys :
          /\ nvotes[r] = MaxVotes
          /\ Distinct(commits[r][k]) >= Q
          /\ is_committed(r, k[2])

\* C11: PBFT happy path.  With four correct replicas and no POST lost, once
\* every replica has run its consensus attempt for the block of sequence 1 to
\* its end, every replica reports is_committed(1) and every propose has
\* returned Committed.
C11_HappyPath ==
    ( /\ peers = "all"
      /\ \A r \in Nodes : attempts[r] = MaxAttempts /\ pc[r] = "idle" )
    => \A r \in Nodes : is_committed(r, 1) /\ result[r].kind = "Committed"

\* C12: Gossip propose.  Every propose call that ends returns Committed(b) for
\* the block b it was handed and leaves b.index committed, whatever messages
\* were or were not delivered; after a call returned Committed(b),
\* is_committed(b.index) is true.
C12_ProposeEnds ==
    \A b \in TraitBlocks :
        (b \in proposing /\ b \notin proposing') =>
            out' = Committed(b) /\ b.index \in committed'

C12_CommittedAfter ==
    (engine = "Gossip" /\ out.kind = "Committed") => engine_is_committed(out.block.index)

C12_GossipPropose == [][C12_ProposeEnds /\ C12_CommittedAfter']_vars

\* propose returned Committed for an index no peer message was recorded for.
C12_Witness ==
    /\ engine = "Gossip"
    /\ out = Committed([index |-> 1, hash |-> "h1"])
    /\ state = MapInsert(EmptyMap, 1, {})
    /\ engine_is_committed(1)

\* C13: the Eventual engine commits unconditionally.  Every step of the engine
\* is either a propose that returns Committed(b) and adds exactly b.index to
\* the committed set, or a handle_message that returns Pending and leaves the
\* committed set as it was.
C13_EventualStep ==
    engine = "Eventual" =>
        \/ \E b \in TraitBlocks :
              /\ out' = Committed(b)
              /\ committed' = committed \cup {b.index}
        \/ /\ out' = Pending
           /\ committed' = committed

C13_ProposeCommits ==
    \A b \in TraitBlocks : EventualPropose(b) => out' = Committed(b)

C14_ProposeReturns ==
    (engine = "Quorumless" /\ votes_lock = "propose") =>
        \E i \in DOMAIN votes :
            /\ 0 \in votes[i]
            /\ IF calculate_total_weight(i) >= ThresholdWeight
               THEN out.kind = "Committed" /\ out.block.index = i /\ i \in committed
               ELSE out = Pending

\* C15: a Flexible-Paxos propose that no later call overtakes returns Committed
\* and commits its index; on a fresh instance (the first call) it returns
\* Committed of the block it was handed, and a call made after a commit
\* returns Committed carrying the block of that first commit.
C15_ReturnStep ==
    \A c \in Calls :
        (PaxosReturn(c) /\ \A d \in Calls : d > c => call[d].pc = "idle") =>
            /\ call'[c].result.kind = "Committed"
            /\ call[c].block.index \in committed'
            /\ c = 1 => call'[c].result = Committed(call[c].block)
            /\ \A d \in Calls : call[d].result.kind = "Committed" =>
                    call'[c].result = call[d].result

C15_HappyPath == [][C15_ReturnStep]_vars

C15_Witness ==
    /\ engine = "FlexiblePaxos"
    /\ call[1].result = Committed(FirstBlock)
    /\ call[2].result = Committed(FirstBlock)
    /\ \A n \in Nodes : acceptors[n].accepted.value.proposal = 2 * TotalNodes * 1000
    /\ committed = {1}

\* C16: execute returns Some(block) exactly when the wrapped propose returned
\* Committed(block), None when it returned Pending or Rejected, and the error
\* when propose failed; name, requirements and is_committed are those of the
\* wrapped engine, which the call leaves as it was.
C16_Execute ==
    output.called =>
        /\ \A b \in TraitBlocks :
              output.execute = Ok(Some(b)) <=> input.propose = Ok(Committed(b))
        /\ (input.propose.ok /\ input.propose.value.kind \in {"Pending", "Rejected"})
              => output.execute = Ok(None)
        /\ ~input.propose.ok => output.execute = input.propose
        /\ output.execute.ok =>
              (output.execute.value = None \/ output.execute.value.value \in TraitBlocks)

C16_Delegates ==
    output.called =>
        /\ output.name = input.name
        /\ output.requirements.requires_majority = input.requires_majority
        /\ output.is_committed = input.committed

C16_AdapterMapping == [][(engine = "adapter") => (C16_Execute' /\ C16_Delegates' /\ input' = input)]_vars

C16_Witness ==
    /\ engine = "adapter"
    /\ output.called
    /\ input.propose = Ok(Rejected("invalid block"))
    /\ output.execute = Ok(None)
    /\ output.is_committed = {1}

\* C17: a block saved by save_block is handed back by get_block_by_index and
\* get_block_by_hash equal in every field, in the state after the save and in
\* every later state until a delete_block of its index.
C17_SaveStep ==
    \A b \in StoreBlocks :
        (output'.op = "save_block" /\ output'.arg = b /\ SaveBlock(b) /\ output'.result.ok) =>
            /\ get_block_by_index(b.index)' = Ok(b)
            /\ get_block_by_hash(b.hash)' = Ok(b)

C17_KeptStep ==
    blockchain' # blockchain =>
        \A b \in StoreBlocks :
            ( /\ get_block_by_index(b.index) = Ok(b)
              /\ ~(output'.op = "delete_block" /\ output'.arg = b.index) ) =>
                /\ get_block_by_index(b.index)' = Ok(b)
                /\ get_block_by_hash(b.hash)' = Ok(b)

C17_Fetched ==
    /\ output.op = "get_block_by_index" => output.result = get_block_by_index(output.arg)
    /\ output.op = "get_block_by_hash" => output.result = get_block_by_hash(output.arg)

C17_RoundTrip ==
    [][(engine = "store") => (C17_SaveStep /\ C17_KeptStep /\ C17_Fetched')]_vars

C17_Witness ==
    /\ engine = "store"
    /\ output.op = "get_block_by_hash"
    /\ output.arg = WrongHash
    /\ output.result = Ok([create_test_block(2, TestChain(1).hash) EXCEPT !.hash = WrongHash])
    /\ get_block_count = 2

\* C18: no two stored blocks share an index or a hash; save_block of a block
\* whose index or hash is already stored fails with the driver's error and
\* leaves the stored blocks and the block count unchanged.
C18_Unique ==
    \A r \in blockchain : \A q \in blockchain :
        r # q => (r.block_index # q.block_index /\ r.hash # q.hash)

C18_RefusedStep ==
    \A b \in StoreBlocks :
        ( /\ output'.op = "save_block" /\ output'.arg = b
          /\ SaveBlock(b)
          /\ \E r \in blockchain : r.block_index = b.index \/ r.hash = b.hash ) =>
            /\ output'.result = Err("Sqlite")
            /\ blockchain' = blockchain
            /\ get_block_count' = get_block_count

C18_Uniqueness == [][(engine = "store") => (C18_RefusedStep /\ C18_Unique')]_vars

C18_Witness ==
    /\ engine = "store"
    /\ output.op = "save_block"
    /\ output.result = Err("Sqlite")
    /\ \E r \in blockchain : r.hash = output.arg.hash /\ r.block_index # output.arg.index
    /\ \A r \in blockchain : r.block_index # output.arg.index

\* C19: save_blocks stores every block of the batch and returns the batch
\* length, or, when a block of the batch repeats a stored index or hash or
\* one of an earlier block of the batch, stores nothing and leaves the count.
C19_Clash(blocks) ==
    \/ \E i \in 1 .. Len(blocks) : \E r \in blockchain :
          r.block_index = blocks[i].index \/ r.hash = blocks[i].hash
    \/ \E i \in 1 .. Len(blocks) : \E j \in 1 .. Len(blocks) :
          i < j /\ (blocks[i].index = blocks[j].index \/ blocks[i].hash = blocks[j].hash)

C19_BatchStep ==
    \A blocks \in Batches :
        (output'.op = "save_blocks" /\ output'.arg = blocks /\ SaveBlocks(blocks)) =>
            IF C19_Clash(blocks)
              THEN /\ ~output'.result.ok
                   /\ blockchain' = blockchain
                   /\ get_block_count' = get_block_count
              ELSE /\ output'.result = Ok(Len(blocks))
                   /\ \A i \in 1 .. Len(blocks) :
                         get_block_by_index(blocks[i].index)' = Ok(blocks[i])
                   /\ get_block_count' = get_block_count + Len(blocks)

C19_BatchAtomic == [][(engine = "store") => C19_BatchStep]_vars

C19_Witness ==
    /\ engine = "store"
    /\ output.op = "save_blocks"
    /\ ~output.result.ok
    /\ Len(output.arg) = 2
    /\ output.arg[1].index # output.arg[2].index
    /\ output.arg[1].hash = output.arg[2].hash
    /\ get_block_count = 1
    /\ \A r \in blockchain :
          r.block_index # output.arg[1].index /\ r.hash # output.arg[1].hash

\* C20: verify_chain returns true exactly when every stored block that has a
\* stored block below it (the next lower stored index) carries that block's
\* hash as previous_hash and a hash equal to its recomputed content hash; it
\* returns true on the empty store and false when the block of the highest
\* index has a wrong previous_hash.
C20_Below(r, q) ==
    /\ q.block_index < r.block_index
    /\ \A p \in blockchain : ~(q.block_index < p.block_index /\ p.block_index < r.block_index)

C20_Linked ==
    \A r \in blockchain : \A q \in blockchain :
        C20_Below(r, q) =>
            /\ r.prev_hash = q.hash
            /\ r.hash = calculate_hash(from_row(r))

C20_VerifyChain ==
    (engine = "store" /\ output.op = "verify_chain") =>
        /\ output.result = Ok(C20_Linked)
        /\ blockchain = {} => output.result = Ok(TRUE)
        /\ (\E r \in blockchain : \E q \in blockchain :
               C20_Below(r, q) /\ r.prev_hash # q.hash) => output.result = Ok(FALSE)

C20_Witness ==
    /\ engine = "store"
    /\ output.op = "verify_chain"
    /\ output.result = Ok(FALSE)
    /\ blockchain = {to_row(create_test_block(1, GenesisHash)),
                     to_row(create_test_block(2, WrongHash))}

\* C21: every stored block whose index is above 0 and whose predecessor index
\* is stored carries the hash of that stored predecessor as previous_hash.
C21_ChainLinked ==
    engine = "store" =>
        \A r \in blockchain : \A q \in blockchain :
            (r.block_index > 0 /\ q.block_index = r.block_index - 1) =>
                r.prev_hash = q.hash

\* C22: the hash of every stored block is the content hash recomputed from its
\* index, timestamp, data, previous_hash and nonce.
C22_ContentHash ==
    engine = "store" =>
        \A r \in blockchain : r.hash = calculate_hash(from_row(r))

\* C23: a pass of the benchmark loop pushes one latency sample and adds one to
\* exactly one of committed_count, failed_count and error_count.
C23_CountStep ==
    (engine = "bench" /\ bench'.pc = "running" /\ bench'.pos # bench.pos /\ bench'.pos # 0) =>
        /\ bench'.pos = bench.pos + 1
        /\ Len(bench'.latencies) = Len(bench.latencies) + 1
        /\ LET dc == bench'.committed_count - bench.committed_count
               df == bench'.failed_count - bench.failed_count
               de == bench'.error_count - bench.error_count
           IN  /\ {dc, df, de} \subseteq {0, 1}
               /\ dc + df + de = 1

\* C23: during a run the three counters add up to the blocks processed, one
\* sample each; every ConsensusMetrics returned for M blocks has
\* committed + failed + error = total_blocks = M and was built from M samples.
C23_Metrics ==
    engine = "bench" =>
        /\ bench.committed_count + bench.failed_count + bench.error_count = bench.pos
        /\ Len(bench.latencies) = bench.pos
        /\ \A k \in DOMAIN bench.round_metrics :
              LET m == bench.round_metrics[k]
              IN  /\ m.committed_blocks + m.failed_blocks + m.error_blocks = m.total_blocks
                  /\ m.total_blocks = Len(bench.blocks)
                  /\ m.samples = Len(bench.blocks)

\* C23: the benchmark counters partition the run.
C23_Partition == [][C23_CountStep /\ C23_Metrics /\ C23_Metrics']_vars

\* A run over MaxBlocks blocks returned with a committed, a failed or an errored
\* block among them.
C23_Witness ==
    /\ engine = "bench"
    /\ bench.pc = "returned"
    /\ Len(bench.blocks) = MaxBlocks
    /\ \E k \in DOMAIN bench.round_metrics :
          /\ bench.round_metrics[k].error_blocks = 1
          /\ bench.round_metrics[k].committed_blocks = 1

\* C24: the runs of one of the compared strategies over the same blocks, with no
\* peer message, report the same committed, failed and error counts, whether a
\* run uses the instance of the run before or a newly built one.
C24_Deterministic ==
    (engine = "bench" /\ bench.strategy # "dyn") =>
        \A j \in DOMAIN bench.round_metrics : \A k \in DOMAIN bench.round_metrics :
            /\ bench.round_metrics[j].committed_blocks = bench.round_metrics[k].committed_blocks
            /\ bench.round_metrics[j].failed_blocks = bench.round_metrics[k].failed_blocks
            /\ bench.round_metrics[j].error_blocks = bench.round_metrics[k].error_blocks

\* Two runs on one instance returned, the blocks committed in both.
C24_Witness ==
    /\ engine = "bench"
    /\ bench.strategy \in {"Gossip", "Flexible Paxos"}
    /\ bench.reused
    /\ Len(bench.blocks) = MaxBlocks
    /\ Len(bench.round_metrics) = 2
    /\ bench.round_metrics[2].committed_blocks = MaxBlocks

\* C25: aggregation over R >= 1 rounds.  With one round every aggregated value
\* is that round's value; each counter is the sum over the rounds divided by R
\* (a usize: the quotient without its fraction); min_latency is the least and
\* max_latency the greatest over the rounds; with fewer than two samples every
\* standard deviation is 0.
C25_Aggregation ==
    (engine = "aggregate" /\ output # NoOutput) =>
        LET rounds == input.round_metrics
            R == Len(rounds)
            avg == output.avg_metrics
            Total(field) == Sum(Column(rounds, field))
        IN  /\ R = 1 =>
                /\ \A field \in {"total_blocks", "committed_blocks", "failed_blocks",
                                 "error_blocks", "min_latency_ms", "max_latency_ms",
                                 "data_integrity_maintained"} :
                      avg[field] = rounds[1][field]
                /\ \A field \in {"avg_latency_ms", "throughput_blocks_per_sec",
                                 "commit_rate", "error_rate"} :
                      RatioIs(avg[field], rounds[1][field])
            /\ R >= 1 =>
                /\ \A field \in {"committed_blocks", "failed_blocks", "error_blocks"} :
                      /\ R * avg[field] <= Total(field)
                      /\ Total(field) < R * (avg[field] + 1)
                /\ \A k \in 1 .. R : avg.min_latency_ms <= rounds[k].min_latency_ms
                /\ \E k \in 1 .. R : avg.min_latency_ms = rounds[k].min_latency_ms
                /\ \A k \in 1 .. R : avg.max_latency_ms >= rounds[k].max_latency_ms
                /\ \E k \in 1 .. R : avg.max_latency_ms = rounds[k].max_latency_ms
            /\ R < 2 =>
                \A field \in DOMAIN output.metrics_std_dev :
                    RatioIs(output.metrics_std_dev[field], 0)
            /\ Len(input.round_runtimes) < 2 => RatioIs(output.runtime_std_dev, 0)

\* Two rounds with different counters and latency bounds were aggregated.
C25_Witness ==
    /\ engine = "aggregate"
    /\ output # NoOutput
    /\ Len(input.round_metrics) = 2
    /\ input.round_metrics[1].committed_blocks = 2
    /\ input.round_metrics[2].committed_blocks = 1
    /\ input.round_metrics[1].min_latency_ms > input.round_metrics[2].min_latency_ms
    /\ output.avg_metrics.committed_blocks = 1

\* C26: broadcast_message attempts one send to every configured address
\* except the node's own, in the order of the list, whatever the earlier sends
\* ended in, and returns without an error.
C26_BestEffort ==
    (engine = "network" /\ output # NoOutput) =>
        LET IsPeer(addr) == ~(addr.host = "127.0.0.1"
                              /\ addr.port_text \in DOMAIN PortNumbers
                              /\ PortNumbers[addr.port_text] = input.current_node_port)
        IN  /\ output.sent = SelectSeq(input.node_addresses, IsPeer)
            /\ output.returned = Ok(0)
            /\ \A k \in DOMAIN output.sent :
                  \A l \in DOMAIN output.sent : output.sent[k] = output.sent[l] => k = l

\* A broadcast whose first send failed and whose later send was answered.
C26_Witness ==
    /\ engine = "network"
    /\ output # NoOutput
    /\ Len(output.sent) = 3
    /\ Len(output.logged) >= 1
    /\ output.logged[1] = output.sent[1]
    /\ output.sent[3] \in Range(output.delivered)

\* C27: the block a round creates carries the index after last_index; when the
\* block created before it was not saved, that is the index of the block
\* created before it, otherwise the next one.
C27_CreateStep ==
    (engine = "driver" /\ driver.pc = "round" /\ driver'.pc = "consensus") =>
        /\ driver'.new_block.value.index = driver.last_index + 1
        /\ driver.attempt # None =>
              driver'.new_block.value.index =
                  IF driver.attempt.value.saved THEN driver.attempt.value.index + 1
                  ELSE driver.attempt.value.index

\* C27: at the start of a round last_index is the index of the block saved
\* last, or the value loaded at start-up when none was saved; a round that
\* created no block or saved none leaves it as it was.
C27_RoundStart ==
    (engine = "driver" /\ driver.pc = "round") =>
        /\ driver.last_index = IF driver.saved = None THEN driver.loaded
                               ELSE driver.saved.value
        /\ driver.saved # None =>
              /\ get_block_by_index(driver.last_index).ok
              /\ get_block_by_index(driver.last_index).value.hash = driver.last_hash

\* C27: an index is consumed only by a block that was committed and saved.
C27_IndexAccounting ==
    [][/\ C27_CreateStep
       /\ C27_RoundStart /\ C27_RoundStart'
       /\ (engine = "driver" /\ driver.pc = "round" /\ driver'.pc = "round") =>
             (driver'.last_index = driver.last_index /\ blockchain' = blockchain)
       /\ (engine = "driver" /\ driver.pc = "consensus") =>
             driver'.last_index =
                 IF driver'.attempt.value.saved THEN driver.last_index
                 ELSE driver.last_index - 1]_vars

\* A block is created for the index of an attempt that was not saved, after a
\* block was saved before it.
C27_Witness ==
    /\ engine = "driver"
    /\ driver.pc = "consensus"
    /\ driver.saved # None
    /\ driver.attempt # None
    /\ ~driver.attempt.value.saved
    /\ driver.new_block.value.index = driver.attempt.value.index

\* C28: a replica that was sent a PrePrepare for (view, s) with one hash adds
\* no sender to the pre-prepare set of (view, s) when it is sent a PrePrepare
\* for (view, s) with another hash.
C28_EquivocationIgnored ==
    [][\A r \in Replicas : \A msg \in AllMessages :
          (/\ engine = "PBFT"
           /\ input' = Append(input, msg)
           /\ \E k \in DOMAIN input :
                 /\ input[k].view = msg.view
                 /\ input[k].sequence = msg.sequence
                 /\ input[k].block_hash # msg.block_hash) =>
              pre_prepares'[r][<<msg.view, msg.sequence>>] =
                  pre_prepares[r][<<msg.view, msg.sequence>>]]_vars

\* C29: a replica broadcasts its Commit for (view, s), and records its own
\* Commit, only while it holds Prepares of a quorum of senders for (view, s).
C29_CommitAfterPrepared ==
    [][\A r \in Replicas :
          (/\ engine = "PBFT"
           /\ pc[r] \in {"broadcast_commit", "commit"}
           /\ pc'[r] # pc[r]) =>
              has_quorum(prepares[r][<<NodeView, blk[r].index>>], TotalNodes)]_vars

\* C30: a replica broadcasts its Prepare for (view, s) only when it has recorded
\* a PrePrepare for (view, s).
C30_PrepareAfterPrePrepare ==
    [][\A r \in Replicas :
          (/\ engine = "PBFT"
           /\ pc[r] = "sleep"
           /\ pc'[r] = "prepare") =>
              pre_prepares[r][<<NodeView, blk[r].index>>] # <<>>]_vars

\* C31: a Flexible-Paxos propose that reaches the phase-2 quorum with chosen
\* value v inserts v.index into the committed set and returns Committed(v).
C31_CommitBookkeeping ==
    [][\A c \in Calls :
          (/\ engine = "FlexiblePaxos"
           /\ call[c].pc = "decide"
           /\ call'[c].pc = "returned"
           /\ is_quorum(call[c].accepted, quorums.q2_size)) =>
              /\ call'[c].result = Committed(call[c].value)
              /\ committed' = committed \cup {call[c].value.index}]_vars

\* C32: whenever a propose call of any engine has returned Committed(v), v.index
\* is in that engine's committed set, so is_committed(v.index) is true from
\* the return on.
C32_CommitVisible ==
    /\ engine = "PBFT" =>
          \A r \in Replicas : result[r].kind = "Committed" =>
              is_committed(r, result[r].block.index)
    /\ engine \in {"Gossip", "Eventual", "Quorumless"} =>
          (out.kind = "Committed" => engine_is_committed(out.block.index))
    /\ engine = "FlexiblePaxos" =>
          \A c \in Calls : call[c].result.kind = "Committed" =>
              engine_is_committed(call[c].result.block.index)

\* C33: in the gossip engine an index becomes committed, in propose and in
\* handle_message, only when its received_from set holds at least gossip_rounds
\* node ids, and a propose that ends below that threshold returns Pending.
C33_CommitThreshold ==
    [][engine = "Gossip" =>
          /\ \A i \in committed' \ committed :
                /\ i \in DOMAIN state'
                /\ Cardinality(state'[i]) >= GossipRounds
          /\ \A block \in proposing \ proposing' :
                (~(block.index \in DOMAIN state'
                   /\ Cardinality(state'[block.index]) >= GossipRounds)) =>
                    out' = Pending]_vars

\* C34: the received_from set of every block index of the gossip engine only
\* grows: no propose and no handle_message removes a recorded node id.
C34_SeersGrow ==
    [][engine = "Gossip" =>
          \A i \in DOMAIN state :
              /\ i \in DOMAIN state'
              /\ state[i] \subseteq state'[i]]_vars

\* C35: no Quorum-less propose or handle_message call asks for the read side
\* of the votes lock while it holds the write side, so no call is left waiting
\* for a lock it holds itself.
C35_WriteReleasedBeforeRead ==
    engine = "Quorumless" => votes_lock \notin {"propose", "handle_message"}

\* C36: a propose call that is suspended at an await (the gossip round delay,
\* the eventual confirmation delay, the PBFT propagation sleep or one of the
\* three broadcasts) holds none of the engine's locks, so handlers and
\* is_committed on another thread are not kept waiting by it.
C36_NoLockAcrossAwait ==
    tasks # NoTasks =>
        \A t \in TaskIds : tasks[t].pc \in Awaits => tasks[t].held = {}

C36_Witness ==
    /\ engine = "Gossip"
    /\ tasks # NoTasks
    /\ tasks["driver"].pc = "sleep"
    /\ tasks["server"].pc = "lock_committed"
    /\ tasks["server"].msg.block_index = tasks["driver"].block.index
    /\ output # NoOutput

\* C37: the proposal numbers one Flexible-Paxos replica hands out are strictly
\* increasing, the k-th one of replica i is i * 1000 + k * N * 1000, and no
\* number is handed out by two replicas.
C37_Count(node_id, upto) ==
    Cardinality({j \in 1 .. upto : output[j].node_id = node_id})

C37_ProposalIds ==
    engine = "next_proposal" =>
        \A k \in DOMAIN output :
            /\ output[k].proposal =
                  (output[k].node_id * 1000)
                  + (C37_Count(output[k].node_id, k) * input.total_nodes * 1000)
            /\ \A j \in 1 .. (k - 1) :
                  IF output[j].node_id = output[k].node_id
                    THEN output[j].proposal < output[k].proposal
                    ELSE output[j].proposal # output[k].proposal

C37_Witness ==
    /\ engine = "next_proposal"
    /\ input.total_nodes = TotalNodes
    /\ Len(output) = 3
    /\ output[1].node_id = 0 /\ output[2].node_id = 1 /\ output[3].node_id = 0
    /\ output[3].proposal = 2 * TotalNodes * 1000

\* C38: for every cluster size N a PBFTManager is built with, quorum_size(N)
\* is more than N / 2, so two sender sets of quorum size out of N replicas
\* share a replica.
C38_QuorumIsMajority ==
    (engine = "quorum_size" /\ output.called) =>
        /\ 2 * output.quorum_size > input.total_nodes
        /\ \A a, b \in SUBSET (0 .. (input.total_nodes - 1)) :
              (/\ has_quorum(VotesOfLen(Cardinality(a)), input.total_nodes)
               /\ has_quorum(VotesOfLen(Cardinality(b)), input.total_nodes)) =>
                  a \cap b # {}

\* C39: with handle_commit calls of the driver task and of the server thread
\* interleaved between their two lock sections, every sender appears in the
\* commit set of (view, s) once, s appears in committed_blocks at most once,
\* and exactly once as soon as the calls of Q distinct senders have returned.
C39_Returned(r, key) ==
    {n \in Range(commits[r][key]) :
        \A t \in TaskIds :
            ~(/\ tasks[t].pc = "check"
              /\ tasks[t].msg.msg_type = "Commit"
              /\ <<tasks[t].msg.view, tasks[t].msg.sequence>> = key
              /\ tasks[t].msg.node_id = n)}

C39_Times(seq, x) == Cardinality({i \in DOMAIN seq : seq[i] = x})

C39_CommitOnce ==
    (engine = "PBFT" /\ tasks # NoTasks) =>
        \A key \in Keys :
            LET r == TaskNode IN
            /\ \A n \in Nodes : C39_Times(commits[r][key], n) <= 1
            /\ C39_Times(committed_blocks[r], key[2]) <= 1
            /\ Cardinality(C39_Returned(r, key)) >= Q =>
                  C39_Times(committed_blocks[r], key[2]) = 1

C39_Witness ==
    /\ engine = "PBFT" /\ tasks # NoTasks
    /\ tasks["driver"].pc = "idle"
    /\ tasks["server"].pc = "idle"
    /\ result[TaskNode].kind = "Committed"
    /\ Len(commits[TaskNode][<<NodeView, 1>>]) = Q
    /\ commits[TaskNode][<<NodeView, 1>>][2] = TaskNode
    /\ committed_blocks[TaskNode] = <<1>>

\* C40: the driver saves only the block run_consensus returned as committed in
\* that round, and that block carries the index after the latest stored block
\* and that block's hash as previous_hash (index 1 on the genesis hash in an
\* empty store).
C40_SaveStep ==
    \A kind \in {"Some", "None", "Err"}, disk_ok \in BOOLEAN :
        (DriverConsensus(kind, disk_ok) /\ blockchain' # blockchain) =>
            LET block == driver.new_block.value
                latest == get_latest_block.value
            IN  /\ kind = "Some"
                /\ blockchain' = blockchain \cup {to_row(block)}
                /\ driver'.last_hash = block.hash
                /\ IF latest = None
                     THEN block.index = 1 /\ block.previous_hash = DriverGenesis
                     ELSE /\ block.index = latest.value.index + 1
                          /\ block.previous_hash = latest.value.hash

\* C40: whatever the rounds were, the stored indices are 1 .. n and
\* verify_chain returns true.
C40_Chain ==
    engine = "driver" =>
        /\ {from_row(row).index : row \in blockchain} = 1 .. Cardinality(blockchain)
        /\ verify_chain = Ok(TRUE)

C40_DriverChain == []C40_Chain /\ [][C40_SaveStep]_vars

C40_Witness ==
    /\ engine = "driver"
    /\ driver.loaded = 0
    /\ driver.round = DriverRounds
    /\ Cardinality(blockchain) = 2
    /\ driver.attempt # None
    /\ ~driver.attempt.value.saved

====
